---- MODULE Spec2Model ----
(***************************************************************************)
(* State-machine model of the API-key component: the key table, the rate   *)
(* limit buckets and overrides, the verification log and the audit log,    *)
(* with one action per mutation handler.                                   *)
(*                                                                         *)
(* Time is counted in hours: one unit of `now` is 3 600 000 ms.            *)
(* An optional field is a sequence of length 0 (undefined) or 1.           *)
(***************************************************************************)
EXTENDS Integers, Sequences, FiniteSets, TLC

VARIABLES
  now,        \* Date.now()
  keys,       \* table "keys": document id -> document
  nextId,     \* next document id of table "keys" (ids are never reused)
  buckets,    \* table "rateLimitBuckets", in insertion order
  overrides,  \* table "rateLimitOverrides", in insertion order
  logs,       \* table "verificationLogs", in insertion order
  audit,      \* table "auditLog", in insertion order
  results,    \* the completed verify calls, in order: argument, time and value returned
  rlResults,  \* the values returned by the completed checkRateLimit calls
  txns,       \* the running (not yet committed) mutation transactions
  created,    \* the arguments of the create call that made each key document
  permissions,       \* table "permissions", in insertion order
  roles,             \* table "roles", in insertion order
  nextPermissionId,  \* next document id of table "permissions"
  nextRoleId,        \* next document id of table "roles"
  analyticsRollups,  \* table "analyticsRollups", in insertion order
  rollupRuns,        \* the instants of the completed rollupAnalytics runs, in order
  dailyRuns,         \* the instants of the completed rollupDaily runs, in order
  issued,            \* the plaintext key returned by create or rotate, by keyId
  thrown      \* the errors thrown to the callers of the mutations that failed, in order

\* the tables of the permissions and roles
rbacVars == <<permissions, roles, nextPermissionId, nextRoleId>>

\* the table of the rollups and the runs of the job that fills it
rollupVars == <<analyticsRollups, rollupRuns, dailyRuns>>

vars == <<now, keys, nextId, buckets, overrides, logs, audit, results, rlResults, txns, created,
          rbacVars, rollupVars, issued, thrown>>

----------------------------------------------------------------------------
(* Bounds of the model *)

MaxKeys == 2
MaxTime == 3
MaxOps == 3
MaxChecks == 3
MaxCredits == 2
MaxTxns == 3
MaxPermissions == 2
MaxRoles == 1

----------------------------------------------------------------------------
(* Values *)

None == << >>
Some(x) == <<x>>

\* JavaScript truthiness of an optional number: undefined and 0 are falsy
Truthy(x) == x # None /\ x[1] # 0

Owners == {<<"owner", 1>>}
DefaultNamespace == "default"

\* the plaintext of the n-th generated key; Plaintexts also holds one that
\* is never generated
Plaintexts == 1 .. (MaxKeys + 1)

\* SHA-256 digest of a plaintext (collision-free on the plaintexts modelled)
hashKey(p) == <<"sha256", p>>

\* REFILL_INTERVALS, in hours; 0 stands for an interval name that is not in the table
REFILL_INTERVALS(interval) ==
  CASE interval = "hourly"  -> 1
    [] interval = "daily"   -> 24
    [] interval = "weekly"  -> 168
    [] interval = "monthly" -> 720
    [] OTHER -> 0

----------------------------------------------------------------------------
(* crypto.ts; a string is the sequence of its characters                      *)

BASE62_CHARS ==
  << "0", "1", "2", "3", "4", "5", "6", "7", "8", "9",
     "A", "B", "C", "D", "E", "F", "G", "H", "I", "J", "K", "L", "M",
     "N", "O", "P", "Q", "R", "S", "T", "U", "V", "W", "X", "Y", "Z",
     "a", "b", "c", "d", "e", "f", "g", "h", "i", "j", "k", "l", "m",
     "n", "o", "p", "q", "r", "s", "t", "u", "v", "w", "x", "y", "z" >>

\* the BigInt num of base62Encode is the sequence of its bytes without leading
\* zeros, << >> for 0n; num / 62n and num % 62n by long division
RECURSIVE div62(_, _)
div62(num, carry) ==
  IF num = << >> THEN [quotient |-> << >>, remainder |-> carry]
  ELSE LET cur == carry * 256 + Head(num)
           rest == div62(Tail(num), cur % 62)
       IN [quotient |-> <<cur \div 62>> \o rest.quotient, remainder |-> rest.remainder]

RECURSIVE stripZeros(_)
stripZeros(num) == IF num # << >> /\ Head(num) = 0 THEN stripZeros(Tail(num)) ELSE num

\* base62Encode, its while loop
RECURSIVE base62Digits(_, _)
base62Digits(num, result) ==
  IF num = << >> THEN result
  ELSE LET d == div62(num, 0)
       IN base62Digits(stripZeros(d.quotient), <<BASE62_CHARS[d.remainder + 1]>> \o result)

\* base62Encode: the bytes read as one big-endian number, in base 62; "0" for 0
base62Encode(bytes) ==
  IF stripZeros(bytes) = << >> THEN <<BASE62_CHARS[1]>>
  ELSE base62Digits(stripZeros(bytes), << >>)

\* the 32 bytes that crypto.getRandomValues draws for the n-th key where the
\* caller leaves the draw alone: different bytes for different keys
randomValues(n) == [i \in 1..32 |-> (37 * n + 11 * i) % 256]

\* the short byte strings drawn for keyBytes 1 and 6
ShortValues == {<<0>>, <<200>>, <<0, 0, 0, 0, 0, 61>>, <<255, 255, 255, 255, 255, 255>>}

\* base62Encode of the byte strings drawn, computed once
encoded == [bytes \in {randomValues(n) : n \in 1..(MaxKeys + 1)} \cup ShortValues |->
              base62Encode(bytes)]

\* generateKey, given the bytes that crypto.getRandomValues draws
generateKey(prefix, randomBytes) == prefix \o encoded[randomBytes]

\* key.indexOf(ch): the index from 0 of the first occurrence, or -1
indexOf(key, ch) ==
  IF \E i \in DOMAIN key : key[i] = ch
  THEN (CHOOSE i \in DOMAIN key : key[i] = ch /\ \A j \in 1..(i - 1) : key[j] # ch) - 1
  ELSE -1

\* key.slice(start) and key.slice(0, end) for 0 <= start, end <= key.length
sliceFrom(key, start) == SubSeq(key, start + 1, Len(key))
sliceTo(key, end) == SubSeq(key, 1, end)

\* key.slice(-4)
last4(key) == SubSeq(key, IF Len(key) > 4 THEN Len(key) - 3 ELSE 1, Len(key))

\* generateHint
generateHint(key) ==
  IF Len(key) < 12 THEN key
  ELSE LET prefixEnd == indexOf(key, "_") + 1
       IN IF prefixEnd = 0
          THEN sliceTo(key, 4) \o <<".", ".", ".">> \o last4(key)
          ELSE LET prefix == sliceTo(key, prefixEnd)
                   remaining == sliceFrom(key, prefixEnd)
               IN IF Len(remaining) < 8 THEN key
                  ELSE prefix \o sliceTo(remaining, 4) \o <<".", ".", ".">> \o last4(remaining)

----------------------------------------------------------------------------
(* Queries *)

\* ctx.db.query("keys").withIndex("by_hash", hash).first(): the id, or 0
keyByHash(ks, h) ==
  LET hits == {id \in DOMAIN ks : ks[id].hash = h}
  IN IF hits = {} THEN 0 ELSE CHOOSE id \in hits : \A j \in hits : id <= j

\* the lookup through by_key_namespace that compares the namespace only
firstByKeyNamespace_AnyKey(table, identifier, namespace) ==
  LET hits == {i \in 1..Len(table) : table[i].namespace = namespace}
  IN IF hits = {} THEN 0 ELSE CHOOSE i \in hits : \A j \in hits : i <= j

\* query(table).withIndex("by_key_namespace", identifier, namespace).first():
\* the index in the table, or 0
firstByKeyNamespace(table, identifier, namespace) ==
  LET hits == {i \in 1..Len(table) :
                 table[i].keyOrOwnerId = identifier /\ table[i].namespace = namespace}
  IN IF hits = {} THEN 0 ELSE CHOOSE i \in hits : \A j \in hits : i <= j

----------------------------------------------------------------------------
(* shared/verifyChecks.ts *)

\* checkKeyValidity that tests the expiry before the enabled flag
checkKeyValidity_ExpiredFirst(keyRecord, t) ==
  IF Truthy(keyRecord.revokedAt) THEN "REVOKED"
  ELSE IF Truthy(keyRecord.expires) /\ keyRecord.expires[1] < t THEN "EXPIRED"
  ELSE IF ~keyRecord.enabled THEN "DISABLED"
  ELSE IF Truthy(keyRecord.rotationGraceEnd) /\ keyRecord.rotationGraceEnd[1] < t
       THEN "ROTATION_GRACE_EXPIRED"
  ELSE "OK"

checkKeyValidity(keyRecord, t) ==
  IF Truthy(keyRecord.revokedAt) THEN "REVOKED"
  ELSE IF ~keyRecord.enabled THEN "DISABLED"
  ELSE IF Truthy(keyRecord.expires) /\ keyRecord.expires[1] < t THEN "EXPIRED"
  ELSE IF Truthy(keyRecord.rotationGraceEnd) /\ keyRecord.rotationGraceEnd[1] < t
       THEN "ROTATION_GRACE_EXPIRED"
  ELSE "OK"

\* applyRefillIfNeeded refilling only when more than the interval has elapsed
applyRefillIfNeeded_Late(keyRecord, t) ==
  IF keyRecord.refill = None \/ keyRecord.remaining = None THEN keyRecord
  ELSE LET refill == keyRecord.refill[1]
           intervalMs == REFILL_INTERVALS(refill.interval)
       IN IF intervalMs = 0 THEN keyRecord
          ELSE IF t - refill.lastRefill > intervalMs
               THEN [keyRecord EXCEPT !.remaining = Some(refill.amount),
                                      !.refill = Some([refill EXCEPT !.lastRefill = t]),
                                      !.updatedAt = t]
               ELSE keyRecord

\* the key document after the refill step
applyRefillIfNeeded(keyRecord, t) ==
  IF keyRecord.refill = None \/ keyRecord.remaining = None THEN keyRecord
  ELSE LET refill == keyRecord.refill[1]
           intervalMs == REFILL_INTERVALS(refill.interval)
       IN IF intervalMs = 0 THEN keyRecord
          ELSE IF t - refill.lastRefill >= intervalMs
               THEN [keyRecord EXCEPT !.remaining = Some(refill.amount),
                                      !.refill = Some([refill EXCEPT !.lastRefill = t]),
                                      !.updatedAt = t]
               ELSE keyRecord

logEntry(keyHash, t, success, code, rateLimitRemaining, remaining) ==
  [keyHash |-> keyHash, timestamp |-> t, success |-> success, code |-> code,
   remaining |-> remaining, rateLimitRemaining |-> rateLimitRemaining]

----------------------------------------------------------------------------
(* shared/ratelimitCore.ts *)

\* checkAndUpdateRateLimit rejecting only when count > limit
checkAndUpdateRateLimit_OffByOne(bs, identifier, namespace, limit, duration, t) ==
  LET b == firstByKeyNamespace(bs, identifier, namespace)
      windowStart == t - duration
  IN IF b = 0
     THEN [buckets |-> Append(bs, [keyOrOwnerId |-> identifier, namespace |-> namespace,
                                   windowStart |-> t, count |-> 1,
                                   limit |-> limit, duration |-> duration]),
           success |-> TRUE, remaining |-> limit - 1, reset |-> t + duration]
     ELSE IF bs[b].windowStart < windowStart
     THEN [buckets |-> [bs EXCEPT ![b].windowStart = t, ![b].count = 1],
           success |-> TRUE, remaining |-> limit - 1, reset |-> t + duration]
     ELSE IF bs[b].count > limit
     THEN [buckets |-> bs,
           success |-> FALSE, remaining |-> 0, reset |-> bs[b].windowStart + duration]
     ELSE [buckets |-> [bs EXCEPT ![b].count = bs[b].count + 1],
           success |-> TRUE, remaining |-> limit - bs[b].count - 1,
           reset |-> bs[b].windowStart + duration]

\* checkAndUpdateRateLimit resetting as soon as the window is duration old
checkAndUpdateRateLimit_ResetAtBoundary(bs, identifier, namespace, limit, duration, t) ==
  LET b == firstByKeyNamespace(bs, identifier, namespace)
      windowStart == t - duration
  IN IF b = 0
     THEN [buckets |-> Append(bs, [keyOrOwnerId |-> identifier, namespace |-> namespace,
                                   windowStart |-> t, count |-> 1,
                                   limit |-> limit, duration |-> duration]),
           success |-> TRUE, remaining |-> limit - 1, reset |-> t + duration]
     ELSE IF bs[b].windowStart <= windowStart
     THEN [buckets |-> [bs EXCEPT ![b].windowStart = t, ![b].count = 1],
           success |-> TRUE, remaining |-> limit - 1, reset |-> t + duration]
     ELSE IF bs[b].count >= limit
     THEN [buckets |-> bs,
           success |-> FALSE, remaining |-> 0, reset |-> bs[b].windowStart + duration]
     ELSE [buckets |-> [bs EXCEPT ![b].count = bs[b].count + 1],
           success |-> TRUE, remaining |-> limit - bs[b].count - 1,
           reset |-> bs[b].windowStart + duration]

\* the bucket table after the call, and the value returned
checkAndUpdateRateLimit(bs, identifier, namespace, limit, duration, t) ==
  LET b == firstByKeyNamespace(bs, identifier, namespace)
      windowStart == t - duration
  IN IF b = 0
     THEN [buckets |-> Append(bs, [keyOrOwnerId |-> identifier, namespace |-> namespace,
                                   windowStart |-> t, count |-> 1,
                                   limit |-> limit, duration |-> duration]),
           success |-> TRUE, remaining |-> limit - 1, reset |-> t + duration]
     ELSE IF bs[b].windowStart < windowStart
     THEN [buckets |-> [bs EXCEPT ![b].windowStart = t, ![b].count = 1],
           success |-> TRUE, remaining |-> limit - 1, reset |-> t + duration]
     ELSE IF bs[b].count >= limit
     THEN [buckets |-> bs,
           success |-> FALSE, remaining |-> 0, reset |-> bs[b].windowStart + duration]
     ELSE [buckets |-> [bs EXCEPT ![b].count = bs[b].count + 1],
           success |-> TRUE, remaining |-> limit - bs[b].count - 1,
           reset |-> bs[b].windowStart + duration]

----------------------------------------------------------------------------
(* verify *)

\* a JavaScript value that is an array, and one that is an object
jsArray(items) == [type |-> "array", items |-> items]
jsObject(fields) == [type |-> "object", fields |-> fields]

\* db.get(id) on a table: the index of the document in the table, or 0
docById(table, id) ==
  LET hits == {i \in 1..Len(table) : table[i]._id = id}
  IN IF hits = {} THEN 0 ELSE CHOOSE i \in hits : TRUE

\* the elements of a sequence in the order of their first occurrence, each
\* once: the iteration order of new Set(seq)
RECURSIVE setOrder(_)
setOrder(seq) ==
  IF seq = << >> THEN << >>
  ELSE LET front == setOrder(SubSeq(seq, 1, Len(seq) - 1))
           last == seq[Len(seq)]
       IN IF \E i \in 1..Len(front) : front[i] = last THEN front ELSE Append(front, last)

\* the concatenation of the sequences of a sequence
RECURSIVE flatten(_)
flatten(seqs) == IF seqs = << >> THEN << >> ELSE seqs[1] \o flatten(Tail(seqs))

\* namesOf that gives the id itself for an id without document
namesOf_IdWhenMissing(table, ids) ==
  [i \in 1..Len(ids) |-> IF docById(table, ids[i]) # 0
                         THEN table[docById(table, ids[i])].name
                         ELSE ids[i]]

\* the names of the documents of the table that the ids name, in the order of
\* the ids; an id without document is skipped
namesOf(table, ids) ==
  LET found == SelectSeq(ids, LAMBDA id : docById(table, id) # 0)
  IN [i \in 1..Len(found) |-> table[docById(table, found[i])].name]

\* resolvePermissions: the names of the direct permissions and of those of the
\* roles that exist, and the names of these roles
resolvePermissions(db, permissionIds, roleIds) ==
  LET found == SelectSeq(roleIds, LAMBDA id : docById(db.roles, id) # 0)
      ofRoles == [i \in 1..Len(found) |-> db.roles[docById(db.roles, found[i])].permissionIds]
      allPermissionIds == setOrder(permissionIds \o flatten(ofRoles))
  IN [permissionNames |-> namesOf(db.permissions, allPermissionIds),
      roleNames |-> namesOf(db.roles, roleIds)]

\* a result of verify other than VALID: its permissions and roles are []
verifyResult(valid, code, keyId, ownerId, remaining, ratelimit) ==
  [valid |-> valid, code |-> code, keyId |-> keyId, ownerId |-> ownerId,
   remaining |-> remaining, ratelimit |-> ratelimit,
   permissions |-> jsArray(<< >>), roles |-> << >>]

\* the VALID result: permissions is the value that resolvePermissions returned
\* and roles the roleIds of the key
validResult(db, id, keyRecord, newRemaining) ==
  [verifyResult(TRUE, "VALID", Some(id), Some(keyRecord.ownerId), newRemaining, None)
     EXCEPT !.permissions = jsObject(resolvePermissions(db, keyRecord.permissionIds,
                                                        keyRecord.roleIds)),
            !.roles = keyRecord.roleIds]

\* keyRateLimitStep without the lookup of the override
keyRateLimitStep_NoOverride(db, keyRecord, hash, t) ==
  checkAndUpdateRateLimit(db.buckets, hash, keyRecord.namespace,
                          keyRecord.ratelimit[1].limit, keyRecord.ratelimit[1].duration, t)

\* The per-key limit of a key that has a rate-limit policy
keyRateLimitStep(db, keyRecord, hash, t) ==
  LET o == firstByKeyNamespace(db.overrides, hash, keyRecord.namespace)
      rl == keyRecord.ratelimit[1]
  IN checkAndUpdateRateLimit(db.buckets, hash, keyRecord.namespace,
                             IF o # 0 THEN db.overrides[o].limit ELSE rl.limit,
                             IF o # 0 THEN db.overrides[o].duration ELSE rl.duration,
                             t)

\* verifyFinish without the patch of the key document
verifyFinish_NoPatch(db, id, keyRecord, hash, t) ==
  LET newRemaining == IF keyRecord.remaining # None
                      THEN Some(keyRecord.remaining[1] - 1) ELSE None
  IN [keys |-> [db.keys EXCEPT ![id] = keyRecord],
      buckets |-> db.buckets,
      logs |-> <<logEntry(hash, t, TRUE, "VALID", None, newRemaining)>>,
      result |-> validResult(db, id, keyRecord, newRemaining)]

\* The credit decrement, the success log and the VALID result
verifyFinish(db, id, keyRecord, hash, t) ==
  LET newRemaining == IF keyRecord.remaining # None
                      THEN Some(keyRecord.remaining[1] - 1) ELSE None
      patched == IF keyRecord.remaining # None
                 THEN [keyRecord EXCEPT !.remaining = newRemaining, !.updatedAt = t]
                 ELSE keyRecord
  IN [keys |-> [db.keys EXCEPT ![id] = patched],
      buckets |-> db.buckets,
      logs |-> <<logEntry(hash, t, TRUE, "VALID", None, newRemaining)>>,
      result |-> validResult(db, id, keyRecord, newRemaining)]

\* verifyRateLimited that returns the roles of the key
verifyRateLimited_WithRoles(db, id, keyRecord, hash, rl, t) ==
  [keys |-> [db.keys EXCEPT ![id] = keyRecord],
   buckets |-> rl.buckets,
   logs |-> <<logEntry(hash, t, FALSE, "RATE_LIMITED", Some(rl.remaining), None)>>,
   result |-> [verifyResult(FALSE, "RATE_LIMITED", Some(id), Some(keyRecord.ownerId), None,
                            Some([remaining |-> rl.remaining, reset |-> rl.reset]))
                 EXCEPT !.roles = keyRecord.roleIds]]

\* verifyRateLimited without its logVerification call
verifyRateLimited_NoLog(db, id, keyRecord, hash, rl, t) ==
  [keys |-> [db.keys EXCEPT ![id] = keyRecord],
   buckets |-> rl.buckets,
   logs |-> << >>,
   result |-> verifyResult(FALSE, "RATE_LIMITED", Some(id), Some(keyRecord.ownerId), None,
                           Some([remaining |-> rl.remaining, reset |-> rl.reset]))]

\* verifyRateLimited that takes a credit of the key it rejects
verifyRateLimited_Spend(db, id, keyRecord, hash, rl, t) ==
  [keys |-> [db.keys EXCEPT ![id] =
               IF keyRecord.remaining # None
               THEN [keyRecord EXCEPT !.remaining = Some(keyRecord.remaining[1] - 1)]
               ELSE keyRecord],
   buckets |-> rl.buckets,
   logs |-> <<logEntry(hash, t, FALSE, "RATE_LIMITED", Some(rl.remaining), None)>>,
   result |-> verifyResult(FALSE, "RATE_LIMITED", Some(id), Some(keyRecord.ownerId), None,
                           Some([remaining |-> rl.remaining, reset |-> rl.reset]))]

\* A rejection by a rate limit: the log and the RATE_LIMITED result
verifyRateLimited(db, id, keyRecord, hash, rl, t) ==
  [keys |-> [db.keys EXCEPT ![id] = keyRecord],
   buckets |-> rl.buckets,
   logs |-> <<logEntry(hash, t, FALSE, "RATE_LIMITED", Some(rl.remaining), None)>>,
   result |-> verifyResult(FALSE, "RATE_LIMITED", Some(id), Some(keyRecord.ownerId), None,
                           Some([remaining |-> rl.remaining, reset |-> rl.reset]))]

\* verifyFromKeyLimit that applies an override to a key without a policy
verifyFromKeyLimit_OverrideAlone(db, id, keyRecord, hash, t) ==
  IF \/ keyRecord.ratelimit # None
     \/ firstByKeyNamespace(db.overrides, hash, keyRecord.namespace) # 0
  THEN LET rl == keyRateLimitStep(db, keyRecord, hash, t)
       IN IF ~rl.success
          THEN verifyRateLimited(db, id, keyRecord, hash, rl, t)
          ELSE verifyFinish([db EXCEPT !.buckets = rl.buckets], id, keyRecord, hash, t)
  ELSE verifyFinish(db, id, keyRecord, hash, t)

\* From the per-key limit on
verifyFromKeyLimit(db, id, keyRecord, hash, t) ==
  IF keyRecord.ratelimit # None
  THEN LET rl == keyRateLimitStep(db, keyRecord, hash, t)
       IN IF ~rl.success
          THEN verifyRateLimited(db, id, keyRecord, hash, rl, t)
          ELSE verifyFinish([db EXCEPT !.buckets = rl.buckets], id, keyRecord, hash, t)
  ELSE verifyFinish(db, id, keyRecord, hash, t)

\* verify that applies the refill before the validity rules refuse the key
verifyHandler_RefillFirst(db, plaintext, t) ==
  LET hash == hashKey(plaintext)
      id == keyByHash(db.keys, hash)
  IN IF id = 0
     THEN [keys |-> db.keys, buckets |-> db.buckets,
           logs |-> <<logEntry(hash, t, FALSE, "NOT_FOUND", None, None)>>,
           result |-> verifyResult(FALSE, "NOT_FOUND", None, None, None, None)]
     ELSE LET check == checkKeyValidity(db.keys[id], t)
          IN IF check # "OK"
             THEN [keys |-> [db.keys EXCEPT ![id] = applyRefillIfNeeded(db.keys[id], t)],
                   buckets |-> db.buckets,
                   logs |-> <<logEntry(hash, t, FALSE, check, None, None)>>,
                   result |-> verifyResult(FALSE, check, Some(id),
                                           Some(db.keys[id].ownerId), None, None)]
             ELSE LET keyRecord == applyRefillIfNeeded(db.keys[id], t)
                  IN IF keyRecord.remaining # None /\ keyRecord.remaining[1] <= 0
                     THEN [keys |-> [db.keys EXCEPT ![id] = keyRecord],
                           buckets |-> db.buckets,
                           logs |-> <<logEntry(hash, t, FALSE, "USAGE_EXCEEDED", None, None)>>,
                           result |-> verifyResult(FALSE, "USAGE_EXCEEDED", Some(id),
                                                   Some(keyRecord.ownerId), Some(0), None)]
                     ELSE verifyFromKeyLimit(db, id, keyRecord, hash, t)

\* verify that consults the rate limit of the key before its credits
verifyHandler_LimitFirst(db, plaintext, t) ==
  LET hash == hashKey(plaintext)
      id == keyByHash(db.keys, hash)
  IN IF id = 0
     THEN [keys |-> db.keys, buckets |-> db.buckets,
           logs |-> <<logEntry(hash, t, FALSE, "NOT_FOUND", None, None)>>,
           result |-> verifyResult(FALSE, "NOT_FOUND", None, None, None, None)]
     ELSE LET check == checkKeyValidity(db.keys[id], t)
          IN IF check # "OK"
             THEN [keys |-> db.keys, buckets |-> db.buckets,
                   logs |-> <<logEntry(hash, t, FALSE, check, None, None)>>,
                   result |-> verifyResult(FALSE, check, Some(id),
                                           Some(db.keys[id].ownerId), None, None)]
             ELSE LET keyRecord == applyRefillIfNeeded(db.keys[id], t)
                      limited == keyRecord.ratelimit # None
                      rl == keyRateLimitStep(db, keyRecord, hash, t)
                  IN IF limited /\ ~rl.success
                     THEN verifyRateLimited(db, id, keyRecord, hash, rl, t)
                     ELSE IF keyRecord.remaining # None /\ keyRecord.remaining[1] <= 0
                     THEN [keys |-> [db.keys EXCEPT ![id] = keyRecord],
                           buckets |-> IF limited THEN rl.buckets ELSE db.buckets,
                           logs |-> <<logEntry(hash, t, FALSE, "USAGE_EXCEEDED", None, None)>>,
                           result |-> verifyResult(FALSE, "USAGE_EXCEEDED", Some(id),
                                                   Some(keyRecord.ownerId), Some(0), None)]
                     ELSE verifyFromKeyLimit(db, id, keyRecord, hash, t)

\* The handler of verify on the database db = [keys, buckets, overrides, permissions,
\* roles] at time t:
\* the tables it leaves, the log entries it inserts and the value it returns
verifyHandler(db, plaintext, t) ==
  LET hash == hashKey(plaintext)
      id == keyByHash(db.keys, hash)
  IN IF id = 0
     THEN [keys |-> db.keys, buckets |-> db.buckets,
           logs |-> <<logEntry(hash, t, FALSE, "NOT_FOUND", None, None)>>,
           result |-> verifyResult(FALSE, "NOT_FOUND", None, None, None, None)]
     ELSE LET check == checkKeyValidity(db.keys[id], t)
          IN IF check # "OK"
             THEN [keys |-> db.keys, buckets |-> db.buckets,
                   logs |-> <<logEntry(hash, t, FALSE, check, None, None)>>,
                   result |-> verifyResult(FALSE, check, Some(id),
                                           Some(db.keys[id].ownerId), None, None)]
             ELSE LET keyRecord == applyRefillIfNeeded(db.keys[id], t)
                  IN IF keyRecord.remaining # None /\ keyRecord.remaining[1] <= 0
                     THEN [keys |-> [db.keys EXCEPT ![id] = keyRecord],
                           buckets |-> db.buckets,
                           logs |-> <<logEntry(hash, t, FALSE, "USAGE_EXCEEDED", None, None)>>,
                           result |-> verifyResult(FALSE, "USAGE_EXCEEDED", Some(id),
                                                   Some(keyRecord.ownerId), Some(0), None)]
                     ELSE verifyFromKeyLimit(db, id, keyRecord, hash, t)

----------------------------------------------------------------------------
(* The mutations, each run as one transaction at the current time *)

\* logAudit that leaves the target key hash out
auditEntry_NoTarget(action, details, targetKeyHash, actorId, t) ==
  [action |-> action, actorId |-> actorId, targetKeyHash |-> None,
   timestamp |-> t, details |-> details]

auditEntry(action, details, targetKeyHash, actorId, t) ==
  [action |-> action, actorId |-> actorId, targetKeyHash |-> targetKeyHash,
   timestamp |-> t, details |-> details]

\* a mutation throws: the error goes to its caller and the transaction writes
\* nothing
Throw(mutation, message) ==
  /\ thrown' = Append(thrown, [mutation |-> mutation, message |-> message])
  /\ UNCHANGED <<issued, rollupVars,
                 rbacVars, now, keys, nextId, buckets, overrides, logs, audit, results,
                 rlResults, txns, created>>

\* keys/lifecycle.ts create, given the bytes that crypto.getRandomValues draws;
\* the plaintext generated is the nextId-th one, and hashKey is taken of that
\* number; the optional arguments permissions and roles are permissionIds and
\* roleIds
CreateKey(args, randomBytes) ==
  /\ nextId <= MaxKeys
  /\ Len(randomBytes) = (IF Truthy(args.keyBytes) THEN args.keyBytes[1] ELSE 32)
  /\ LET prefix == IF args.prefix # None /\ args.prefix[1] # << >>
                   THEN args.prefix[1] ELSE <<"s", "k", "_">>
         plaintext == generateKey(prefix, randomBytes)
         hash == hashKey(nextId)
         hint == generateHint(plaintext)
         refillData == IF args.refill # None
                       THEN Some([amount |-> args.refill[1].amount,
                                  interval |-> args.refill[1].interval, lastRefill |-> now])
                       ELSE None
     IN /\ keys' = [id \in DOMAIN keys \cup {nextId} |->
                      IF id = nextId
                      THEN [hash |-> hash, prefix |-> prefix, hint |-> hint,
                            namespace |-> args.namespace, ownerId |-> args.ownerId,
                            createdAt |-> now, updatedAt |-> now,
                            expires |-> args.expires, remaining |-> args.remaining,
                            refill |-> refillData, ratelimit |-> args.ratelimit,
                            enabled |-> TRUE, revokedAt |-> None,
                            rotatedFrom |-> None, rotationGraceEnd |-> None,
                            permissionIds |-> IF args.permissions # None
                                              THEN args.permissions[1] ELSE << >>,
                            roleIds |-> IF args.roles # None THEN args.roles[1] ELSE << >>]
                      ELSE keys[id]]
        /\ audit' = Append(audit, auditEntry("key.created", [keyId |-> nextId],
                                             Some(hash), Some(args.ownerId), now))
        /\ issued' = [id \in DOMAIN issued \cup {nextId} |->
                        IF id = nextId THEN plaintext ELSE issued[id]]
  /\ nextId' = nextId + 1
  /\ created' = [id \in DOMAIN created \cup {nextId} |->
                   IF id = nextId
                   THEN [ownerId |-> args.ownerId, namespace |-> args.namespace,
                         expires |-> args.expires, remaining |-> args.remaining,
                         refill |-> args.refill, ratelimit |-> args.ratelimit]
                   ELSE created[id]]
  /\ UNCHANGED <<rollupVars, rbacVars,
                 thrown, now, buckets, overrides, logs, results, rlResults, txns>>

\* create called without prefix and keyBytes
CreateWith(ownerId, namespace, expires, remaining, refill, ratelimit, permissionIds, roleIds) ==
  CreateKey([prefix |-> None, keyBytes |-> None, ownerId |-> ownerId, namespace |-> namespace,
             expires |-> expires, remaining |-> remaining, refill |-> refill,
             ratelimit |-> ratelimit, permissions |-> permissionIds, roles |-> roleIds],
            randomValues(nextId))

\* create called without permissions and roles
Create(ownerId, namespace, expires, remaining, refill, ratelimit) ==
  CreateWith(ownerId, namespace, expires, remaining, refill, ratelimit, None, None)

\* revoke whose soft branch disables the key without setting revokedAt
Revoke_DisableOnly(keyId, soft) ==
  /\ keyId \in DOMAIN keys
  /\ IF soft = Some(FALSE)
     THEN keys' = [id \in DOMAIN keys \ {keyId} |-> keys[id]]
     ELSE keys' = [keys EXCEPT ![keyId].enabled = FALSE,
                               ![keyId].updatedAt = now]
  /\ audit' = Append(audit, auditEntry("key.revoked", [soft |-> soft # Some(FALSE)],
                                       Some(keys[keyId].hash), None, now))
  /\ UNCHANGED <<issued, rollupVars, rbacVars,
                 thrown, now, nextId, buckets, overrides, logs, results, rlResults,
                 txns, created>>

\* keys/lifecycle.ts revoke
Revoke(keyId, soft) ==
  IF keyId \notin DOMAIN keys
  THEN Throw("revoke", "Key not found")
  ELSE
    /\ IF soft = Some(FALSE)
       THEN keys' = [id \in DOMAIN keys \ {keyId} |-> keys[id]]
       ELSE keys' = [keys EXCEPT ![keyId].revokedAt = Some(now),
                                 ![keyId].enabled = FALSE,
                                 ![keyId].updatedAt = now]
    /\ audit' = Append(audit, auditEntry("key.revoked", [soft |-> soft # Some(FALSE)],
                                         Some(keys[keyId].hash), None, now))
    /\ UNCHANGED <<issued, rollupVars, rbacVars,
                   thrown, now, nextId, buckets, overrides, logs, results, rlResults,
                   txns, created>>

\* update that clears revokedAt when it enables the key
Update_Reinstate(keyId, patch) ==
  IF keyId \notin DOMAIN keys
  THEN Throw("update", "Key not found")
  ELSE
    /\ LET k0 == keys[keyId]
           k1 == [k0 EXCEPT !.updatedAt = now]
           k2 == IF patch.expires # None THEN [k1 EXCEPT !.expires = patch.expires] ELSE k1
           k3 == IF patch.remaining # None THEN [k2 EXCEPT !.remaining = patch.remaining] ELSE k2
           k4 == IF patch.enabled # None
                 THEN [k3 EXCEPT !.enabled = patch.enabled[1],
                                 !.revokedAt = IF patch.enabled[1] THEN None ELSE @]
                 ELSE k3
           k5 == IF patch.ratelimit # None THEN [k4 EXCEPT !.ratelimit = patch.ratelimit] ELSE k4
       IN keys' = [keys EXCEPT ![keyId] = k5]
    /\ audit' = Append(audit, auditEntry("key.updated", patch,
                                         Some(keys[keyId].hash), None, now))
    /\ UNCHANGED <<issued, rollupVars, rbacVars,
                   thrown, now, nextId, buckets, overrides, logs, results, rlResults,
                   txns, created>>

\* update: patch holds the optional arguments expires, remaining, ratelimit, enabled
Update(keyId, patch) ==
  IF keyId \notin DOMAIN keys
  THEN Throw("update", "Key not found")
  ELSE
    /\ LET k0 == keys[keyId]
           k1 == [k0 EXCEPT !.updatedAt = now]
           k2 == IF patch.expires # None THEN [k1 EXCEPT !.expires = patch.expires] ELSE k1
           k3 == IF patch.remaining # None THEN [k2 EXCEPT !.remaining = patch.remaining] ELSE k2
           k4 == IF patch.enabled # None THEN [k3 EXCEPT !.enabled = patch.enabled[1]] ELSE k3
           k5 == IF patch.ratelimit # None THEN [k4 EXCEPT !.ratelimit = patch.ratelimit] ELSE k4
       IN keys' = [keys EXCEPT ![keyId] = k5]
    /\ audit' = Append(audit, auditEntry("key.updated", patch,
                                         Some(keys[keyId].hash), None, now))
    /\ UNCHANGED <<issued, rollupVars, rbacVars,
                   thrown, now, nextId, buckets, overrides, logs, results, rlResults,
                   txns, created>>

\* rotate that copies enabled and revokedAt of the old key to the new one
Rotate_CopyState(keyId, gracePeriodMs) ==
  /\ keyId \in DOMAIN keys
  /\ nextId <= MaxKeys
  /\ LET oldKey == keys[keyId]
         hash == hashKey(nextId)
         plaintext == generateKey(oldKey.prefix, randomValues(nextId))
         newKey == [hash |-> hash, prefix |-> oldKey.prefix,
                    hint |-> generateHint(plaintext), namespace |-> oldKey.namespace,
                    ownerId |-> oldKey.ownerId,
                    createdAt |-> now, updatedAt |-> now,
                    expires |-> oldKey.expires, remaining |-> oldKey.remaining,
                    refill |-> oldKey.refill, ratelimit |-> oldKey.ratelimit,
                    enabled |-> oldKey.enabled, revokedAt |-> oldKey.revokedAt,
                    rotatedFrom |-> Some(oldKey.hash), rotationGraceEnd |-> None,
                    permissionIds |-> oldKey.permissionIds, roleIds |-> oldKey.roleIds]
         patchedOld == IF Truthy(gracePeriodMs)
                       THEN [oldKey EXCEPT !.rotationGraceEnd = Some(now + gracePeriodMs[1]),
                                           !.updatedAt = now]
                       ELSE [oldKey EXCEPT !.enabled = FALSE, !.revokedAt = Some(now),
                                           !.updatedAt = now]
     IN /\ keys' = [id \in DOMAIN keys \cup {nextId} |->
                      IF id = nextId THEN newKey
                      ELSE IF id = keyId THEN patchedOld ELSE keys[id]]
        /\ audit' = Append(audit, auditEntry("key.rotated",
                                             [newKeyId |-> nextId, newKeyHash |-> hash,
                                              gracePeriodMs |-> gracePeriodMs],
                                             Some(oldKey.hash), None, now))
  /\ nextId' = nextId + 1
  /\ issued' = [id \in DOMAIN issued \cup {nextId} |->
                   IF id = nextId
                   THEN generateKey(keys[keyId].prefix, randomValues(nextId))
                   ELSE issued[id]]
  /\ UNCHANGED <<rollupVars, rbacVars,
                 thrown, now, buckets, overrides, logs, results, rlResults, txns,
                 created>>

\* rotate that leaves the old key without an end of grace
Rotate_NoGraceEnd(keyId, gracePeriodMs) ==
  /\ keyId \in DOMAIN keys
  /\ nextId <= MaxKeys
  /\ LET oldKey == keys[keyId]
         hash == hashKey(nextId)
         plaintext == generateKey(oldKey.prefix, randomValues(nextId))
         newKey == [hash |-> hash, prefix |-> oldKey.prefix,
                    hint |-> generateHint(plaintext), namespace |-> oldKey.namespace,
                    ownerId |-> oldKey.ownerId,
                    createdAt |-> now, updatedAt |-> now,
                    expires |-> oldKey.expires, remaining |-> oldKey.remaining,
                    refill |-> oldKey.refill, ratelimit |-> oldKey.ratelimit,
                    enabled |-> TRUE, revokedAt |-> None,
                    rotatedFrom |-> Some(oldKey.hash), rotationGraceEnd |-> None,
                    permissionIds |-> oldKey.permissionIds, roleIds |-> oldKey.roleIds]
         patchedOld == IF Truthy(gracePeriodMs)
                       THEN [oldKey EXCEPT !.updatedAt = now]
                       ELSE [oldKey EXCEPT !.enabled = FALSE, !.revokedAt = Some(now),
                                           !.updatedAt = now]
     IN /\ keys' = [id \in DOMAIN keys \cup {nextId} |->
                      IF id = nextId THEN newKey
                      ELSE IF id = keyId THEN patchedOld ELSE keys[id]]
        /\ audit' = Append(audit, auditEntry("key.rotated",
                                             [newKeyId |-> nextId, newKeyHash |-> hash,
                                              gracePeriodMs |-> gracePeriodMs],
                                             Some(oldKey.hash), None, now))
  /\ nextId' = nextId + 1
  /\ issued' = [id \in DOMAIN issued \cup {nextId} |->
                   IF id = nextId
                   THEN generateKey(keys[keyId].prefix, randomValues(nextId))
                   ELSE issued[id]]
  /\ UNCHANGED <<rollupVars, rbacVars,
                 thrown, now, buckets, overrides, logs, results, rlResults, txns,
                 created>>

\* rotate; the plaintext generated is the nextId-th one
Rotate(keyId, gracePeriodMs) ==
  IF keyId \notin DOMAIN keys
  THEN Throw("rotate", "Key not found")
  ELSE
    /\ nextId <= MaxKeys
    /\ LET oldKey == keys[keyId]
           hash == hashKey(nextId)
           plaintext == generateKey(oldKey.prefix, randomValues(nextId))
           newKey == [hash |-> hash, prefix |-> oldKey.prefix,
                      hint |-> generateHint(plaintext), namespace |-> oldKey.namespace,
                      ownerId |-> oldKey.ownerId,
                      createdAt |-> now, updatedAt |-> now,
                      expires |-> oldKey.expires, remaining |-> oldKey.remaining,
                      refill |-> oldKey.refill, ratelimit |-> oldKey.ratelimit,
                      enabled |-> TRUE, revokedAt |-> None,
                      rotatedFrom |-> Some(oldKey.hash), rotationGraceEnd |-> None,
                      permissionIds |-> oldKey.permissionIds, roleIds |-> oldKey.roleIds]
           patchedOld == IF Truthy(gracePeriodMs)
                         THEN [oldKey EXCEPT !.rotationGraceEnd = Some(now + gracePeriodMs[1]),
                                             !.updatedAt = now]
                         ELSE [oldKey EXCEPT !.enabled = FALSE, !.revokedAt = Some(now),
                                             !.updatedAt = now]
       IN /\ keys' = [id \in DOMAIN keys \cup {nextId} |->
                        IF id = nextId THEN newKey
                        ELSE IF id = keyId THEN patchedOld ELSE keys[id]]
          /\ audit' = Append(audit, auditEntry("key.rotated",
                                               [newKeyId |-> nextId, newKeyHash |-> hash,
                                                gracePeriodMs |-> gracePeriodMs],
                                               Some(oldKey.hash), None, now))
    /\ nextId' = nextId + 1
    /\ issued' = [id \in DOMAIN issued \cup {nextId} |->
                     IF id = nextId
                     THEN generateKey(keys[keyId].prefix, randomValues(nextId))
                     ELSE issued[id]]
    /\ UNCHANGED <<rollupVars, rbacVars,
                   thrown, now, buckets, overrides, logs, results, rlResults, txns,
                   created>>

\* verify of a presented plaintext
Verify(plaintext) ==
  /\ LET out == verifyHandler([keys |-> keys, buckets |-> buckets, overrides |-> overrides,
                               permissions |-> permissions, roles |-> roles],
                              plaintext, now)
     IN /\ keys' = out.keys
        /\ buckets' = out.buckets
        /\ logs' = logs \o out.logs
        /\ results' = Append(results, [key |-> plaintext, at |-> now, ret |-> out.result])
  /\ UNCHANGED <<issued, rollupVars, rbacVars,
                 thrown, now, nextId, overrides, audit, rlResults, txns, created>>

\* a verify handler whose rate-limit lookups read the namespace argument where
\* one is given, in place of the namespace of the key record
verifyArgs_ArgNamespace(db, args, t) ==
  LET named(k) == IF args.namespace # None
                  THEN [k EXCEPT !.namespace = args.namespace[1]] ELSE k
      out == verifyHandler([db EXCEPT !.keys = [id \in DOMAIN db.keys |->
                                                  named(db.keys[id])]],
                           args.key, t)
  IN [out EXCEPT !.keys = [id \in DOMAIN db.keys |->
                             [out.keys[id] EXCEPT !.namespace = db.keys[id].namespace]]]

\* the verify handler on the arguments of the mutation: the key and the optional
\* namespace; the handler reads args.key only
verifyArgs(db, args, t) == verifyHandler(db, args.key, t)

\* verify called with a key and a namespace argument, as client/index.ts calls it
VerifyArgs(args) ==
  /\ LET out == verifyArgs([keys |-> keys, buckets |-> buckets, overrides |-> overrides,
                            permissions |-> permissions, roles |-> roles],
                           args, now)
     IN /\ keys' = out.keys
        /\ buckets' = out.buckets
        /\ logs' = logs \o out.logs
        /\ results' = Append(results, [key |-> args.key, at |-> now, ret |-> out.result])
  /\ UNCHANGED <<issued, rollupVars, rbacVars,
                 thrown, now, nextId, overrides, audit, rlResults, txns, created>>

\* functions/queries.ts getKey: the document of the id, or null
getKey(keyId) == IF keyId \in DOMAIN keys THEN Some(keys[keyId]) ELSE None

\* admin.ts purgeExpiredKeys: deletes the keys of the namespace whose expires is
\* set and below the cutoff; olderThan || now makes an olderThan of 0 mean now
PurgeExpiredKeys(namespace, olderThan) ==
  /\ LET cutoff == IF Truthy(olderThan) THEN olderThan[1] ELSE now
         expiredKeys == {id \in DOMAIN keys : /\ keys[id].namespace = namespace
                                              /\ keys[id].expires # None
                                              /\ keys[id].expires[1] < cutoff}
     IN /\ keys' = [id \in DOMAIN keys \ expiredKeys |-> keys[id]]
        /\ audit' = Append(audit, auditEntry("admin.purge_expired_keys",
                                             [namespace |-> namespace,
                                              count |-> Cardinality(expiredKeys)],
                                             None, None, now))
  /\ UNCHANGED <<issued, rollupVars, rbacVars,
                 thrown, now, nextId, buckets, overrides, logs, results, rlResults,
                 txns, created>>

\* the number of keys that one run of expireKeys takes
EXPIRE_BATCH == 100

\* take(n) of the keys ids read through the index by_expires: the first n in
\* the order of expires, then of creation
takeByExpires(ids, n) ==
  {id \in ids :
     Cardinality({j \in ids : \/ keys[j].expires[1] < keys[id].expires[1]
                              \/ keys[j].expires[1] = keys[id].expires[1] /\ j < id}) < n}

\* the keys that the filter of expireKeys selects at time t
expiredEnabled(t) ==
  {id \in DOMAIN keys : /\ keys[id].expires # None
                        /\ keys[id].expires[1] < t
                        /\ keys[id].enabled}

\* expireKeys that disables every enabled key that has an expires, passed or not
ExpireKeys_AnyExpiry ==
  /\ LET expiredKeys == takeByExpires({id \in DOMAIN keys : /\ keys[id].expires # None
                                                            /\ keys[id].enabled},
                                      EXPIRE_BATCH)
     IN /\ keys' = [id \in DOMAIN keys |->
                      IF id \in expiredKeys
                      THEN [keys[id] EXCEPT !.enabled = FALSE, !.updatedAt = now]
                      ELSE keys[id]]
        /\ audit' = IF expiredKeys # {}
                    THEN Append(audit, auditEntry("cron.expire_keys",
                                                  [count |-> Cardinality(expiredKeys)],
                                                  None, None, now))
                    ELSE audit
  /\ UNCHANGED <<issued, rollupVars, rbacVars,
                 thrown, now, nextId, buckets, overrides, logs, results, rlResults,
                 txns, created>>

\* scheduled/maintenance.ts expireKeys: disables up to EXPIRE_BATCH enabled keys
\* whose expires is below now, and writes an audit entry when it disabled one
ExpireKeys ==
  /\ LET expiredKeys == takeByExpires(expiredEnabled(now), EXPIRE_BATCH)
     IN /\ keys' = [id \in DOMAIN keys |->
                      IF id \in expiredKeys
                      THEN [keys[id] EXCEPT !.enabled = FALSE, !.updatedAt = now]
                      ELSE keys[id]]
        /\ audit' = IF expiredKeys # {}
                    THEN Append(audit, auditEntry("cron.expire_keys",
                                                  [count |-> Cardinality(expiredKeys)],
                                                  None, None, now))
                    ELSE audit
  /\ UNCHANGED <<issued, rollupVars, rbacVars,
                 thrown, now, nextId, buckets, overrides, logs, results, rlResults,
                 txns, created>>

\* the clock
Tick ==
  /\ now < MaxTime
  /\ now' = now + 1
  /\ UNCHANGED <<issued, rollupVars, rbacVars,
                 thrown, keys, nextId, buckets, overrides, logs, audit, results,
                 rlResults, txns, created>>

\* the table without its i-th document
removeAt(table, i) ==
  [j \in 1..(Len(table) - 1) |-> IF j < i THEN table[j] ELSE table[j + 1]]

\* insert or patch the override of (identifier, namespace)
upsertOverride(table, identifier, namespace, limit, duration) ==
  LET existing == firstByKeyNamespace(table, identifier, namespace)
  IN IF existing # 0
     THEN [table EXCEPT ![existing].limit = limit, ![existing].duration = duration]
     ELSE Append(table, [keyOrOwnerId |-> identifier, namespace |-> namespace,
                         limit |-> limit, duration |-> duration])

\* assertPositive that lets 0 pass
assertPositive_NonNegative(value) == ~(value < 0)

\* shared/validation.ts assertPositive: TRUE when it does not throw
assertPositive(value) == ~(value <= 0)

\* ratelimit.ts checkRateLimit
CheckRateLimit(identifier, namespace, limit, duration) ==
  IF ~assertPositive(limit)
  THEN Throw("checkRateLimit", "limit must be positive")
  ELSE
  IF ~assertPositive(duration)
  THEN Throw("checkRateLimit", "duration must be positive")
  ELSE
    /\ LET rl == checkAndUpdateRateLimit(buckets, identifier, namespace, limit, duration, now)
       IN /\ buckets' = rl.buckets
          /\ rlResults' = Append(rlResults, [identifier |-> identifier, namespace |-> namespace,
                                             limit |-> limit, duration |-> duration,
                                             at |-> now, success |-> rl.success,
                                             remaining |-> rl.remaining, reset |-> rl.reset])
    /\ UNCHANGED <<issued, rollupVars, rbacVars,
                   thrown, now, keys, nextId, overrides, logs, audit, results, txns,
                   created>>

\* ratelimit.ts setRateLimitOverride
SetRateLimitOverride(keyId, limit, duration) ==
  IF ~assertPositive(limit)
  THEN Throw("setRateLimitOverride", "limit must be positive")
  ELSE
  IF ~assertPositive(duration)
  THEN Throw("setRateLimitOverride", "duration must be positive")
  ELSE
  IF keyId \notin DOMAIN keys
  THEN Throw("setRateLimitOverride", "Key not found")
  ELSE
    /\ overrides' = upsertOverride(overrides, keys[keyId].hash, keys[keyId].namespace,
                                   limit, duration)
    /\ audit' = Append(audit, auditEntry("ratelimit.override_set",
                                         [limit |-> limit, duration |-> duration],
                                         Some(keys[keyId].hash), None, now))
    /\ UNCHANGED <<issued, rollupVars, rbacVars,
                   thrown, now, keys, nextId, buckets, logs, results, rlResults, txns,
                   created>>

\* ratelimit.ts deleteRateLimitOverride
DeleteRateLimitOverride(keyId) ==
  IF keyId \notin DOMAIN keys
  THEN Throw("deleteRateLimitOverride", "Key not found")
  ELSE
    /\ LET override == firstByKeyNamespace(overrides, keys[keyId].hash, keys[keyId].namespace)
       IN IF override # 0
          THEN /\ overrides' = removeAt(overrides, override)
               /\ audit' = Append(audit, auditEntry("ratelimit.override_deleted", None,
                                                    Some(keys[keyId].hash), None, now))
          ELSE UNCHANGED <<overrides, audit>>
    /\ UNCHANGED <<issued, rollupVars, rbacVars,
                   thrown, now, keys, nextId, buckets, logs, results, rlResults, txns,
                   created>>

\* setOwnerRateLimit (exported by lib.ts, not defined in the sources): the shared
\* limit of an owner is an override keyed by the owner id
SetOwnerRateLimit(ownerId, namespace, limit, duration) ==
  /\ assertPositive(limit)
  /\ assertPositive(duration)
  /\ overrides' = upsertOverride(overrides, ownerId, namespace, limit, duration)
  /\ audit' = Append(audit, auditEntry("ratelimit.owner_set",
                                       [limit |-> limit, duration |-> duration],
                                       None, Some(ownerId), now))
  /\ UNCHANGED <<issued, rollupVars, rbacVars,
                 thrown, now, keys, nextId, buckets, logs, results, rlResults, txns,
                 created>>

\* deleteOwnerRateLimit
DeleteOwnerRateLimit(ownerId, namespace) ==
  /\ LET override == firstByKeyNamespace(overrides, ownerId, namespace)
     IN IF override # 0
        THEN /\ overrides' = removeAt(overrides, override)
             /\ audit' = Append(audit, auditEntry("ratelimit.owner_deleted", None,
                                                  None, Some(ownerId), now))
        ELSE UNCHANGED <<overrides, audit>>
  /\ UNCHANGED <<issued, rollupVars, rbacVars,
                 thrown, now, keys, nextId, buckets, logs, results, rlResults, txns,
                 created>>

-----------------------------------------------------------------------------
(* rbac/permissions.ts, rbac/roles.ts, rbac/assignments.ts *)

\* the _id of the n-th document inserted into a table
newId(table, n) == table \o "|" \o ToString(n)

\* query(table).withIndex("by_name", name).first(): the index in the table, or 0
firstByName(table, name) ==
  LET hits == {i \in 1..Len(table) : table[i].name = name}
  IN IF hits = {} THEN 0 ELSE CHOOSE i \in hits : \A j \in hits : i <= j

\* rbac/permissions.ts createPermission
CreatePermission(name) ==
  IF firstByName(permissions, name) # 0
  THEN Throw("createPermission", "Permission already exists")
  ELSE
    /\ nextPermissionId <= MaxPermissions
    /\ LET permissionId == newId("permissions", nextPermissionId)
       IN /\ permissions' = Append(permissions, [_id |-> permissionId, name |-> name,
                                                 createdAt |-> now])
          /\ audit' = Append(audit, auditEntry("permission.created",
                                               [permissionId |-> permissionId, name |-> name],
                                               None, None, now))
    /\ nextPermissionId' = nextPermissionId + 1
    /\ UNCHANGED <<issued, rollupVars,
                   roles, nextRoleId, thrown, now, keys, nextId, buckets, overrides, logs,
                   results, rlResults, txns, created>>

\* rbac/permissions.ts deletePermission
DeletePermission(permissionId) ==
  IF docById(permissions, permissionId) = 0
  THEN Throw("deletePermission", "Permission not found")
  ELSE
    /\ permissions' = removeAt(permissions, docById(permissions, permissionId))
    /\ audit' = Append(audit, auditEntry("permission.deleted",
                         [permissionId |-> permissionId,
                          name |-> permissions[docById(permissions, permissionId)].name],
                         None, None, now))
    /\ UNCHANGED <<issued, rollupVars,
                   roles, nextPermissionId, nextRoleId, thrown, now, keys, nextId, buckets,
                   overrides, logs, results, rlResults, txns, created>>

\* rbac/roles.ts createRole
CreateRole(name, permissionIds) ==
  IF firstByName(roles, name) # 0
  THEN Throw("createRole", "Role already exists")
  ELSE
    /\ nextRoleId <= MaxRoles
    /\ LET roleId == newId("roles", nextRoleId)
       IN /\ roles' = Append(roles, [_id |-> roleId, name |-> name,
                                     permissionIds |-> permissionIds, createdAt |-> now])
          /\ audit' = Append(audit, auditEntry("role.created",
                                               [roleId |-> roleId, name |-> name],
                                               None, None, now))
    /\ nextRoleId' = nextRoleId + 1
    /\ UNCHANGED <<issued, rollupVars,
                   permissions, nextPermissionId, thrown, now, keys, nextId, buckets, overrides,
                   logs, results, rlResults, txns, created>>

\* rbac/roles.ts deleteRole
DeleteRole(roleId) ==
  IF docById(roles, roleId) = 0
  THEN Throw("deleteRole", "Role not found")
  ELSE
    /\ roles' = removeAt(roles, docById(roles, roleId))
    /\ audit' = Append(audit, auditEntry("role.deleted",
                                         [roleId |-> roleId,
                                          name |-> roles[docById(roles, roleId)].name],
                                         None, None, now))
    /\ UNCHANGED <<issued, rollupVars,
                   permissions, nextPermissionId, nextRoleId, thrown, now, keys, nextId,
                   buckets, overrides, logs, results, rlResults, txns, created>>

\* assignRoles without assertKeyExists: for an id that names no key it still
\* inserts the audit entry
AssignRoles_NoCheck(keyId, roleIds) ==
  /\ keys' = IF keyId \in DOMAIN keys
             THEN [keys EXCEPT ![keyId].roleIds = roleIds, ![keyId].updatedAt = now]
             ELSE keys
  /\ audit' = Append(audit, auditEntry("key.roles_assigned", [roles |-> roleIds],
                                       IF keyId \in DOMAIN keys THEN Some(keys[keyId].hash)
                                       ELSE None,
                                       None, now))
  /\ UNCHANGED <<issued, rollupVars, rbacVars,
                 thrown, now, nextId, buckets, overrides, logs, results, rlResults,
                 txns, created>>

\* rbac/assignments.ts assignRoles
AssignRoles(keyId, roleIds) ==
  IF keyId \notin DOMAIN keys
  THEN Throw("assignRoles", "Key not found")
  ELSE
    /\ keys' = [keys EXCEPT ![keyId].roleIds = roleIds, ![keyId].updatedAt = now]
    /\ audit' = Append(audit, auditEntry("key.roles_assigned", [roles |-> roleIds],
                                         Some(keys[keyId].hash), None, now))
    /\ UNCHANGED <<issued, rollupVars, rbacVars,
                   thrown, now, nextId, buckets, overrides, logs, results, rlResults,
                   txns, created>>

\* rbac/assignments.ts assignPermissions
AssignPermissions(keyId, permissionIds) ==
  IF keyId \notin DOMAIN keys
  THEN Throw("assignPermissions", "Key not found")
  ELSE
    /\ keys' = [keys EXCEPT ![keyId].permissionIds = permissionIds, ![keyId].updatedAt = now]
    /\ audit' = Append(audit, auditEntry("key.permissions_assigned",
                                         [permissions |-> permissionIds],
                                         Some(keys[keyId].hash), None, now))
    /\ UNCHANGED <<issued, rollupVars, rbacVars,
                   thrown, now, nextId, buckets, overrides, logs, results, rlResults,
                   txns, created>>

----------------------------------------------------------------------------
(* shared/aggregateStats.ts, scheduled/rollup.ts, admin.ts: the hourly rollup *)
(* of the verification logs, and the purge of the logs                        *)

\* one hour, in the ticks of the clock (half hours)
HOUR_MS == 2

\* aggregateStats.ts emptyStats
emptyStats ==
  [total |-> 0, valid |-> 0, rateLimited |-> 0, usageExceeded |-> 0, expired |-> 0,
   revoked |-> 0, disabled |-> 0, notFound |-> 0]

\* aggregateStats.ts tallyLog: the accumulator after one more log of the code
tallyLog(stats, code) ==
  LET counted == [stats EXCEPT !.total = @ + 1]
  IN CASE code = "VALID" -> [counted EXCEPT !.valid = @ + 1]
       [] code = "RATE_LIMITED" -> [counted EXCEPT !.rateLimited = @ + 1]
       [] code = "USAGE_EXCEEDED" -> [counted EXCEPT !.usageExceeded = @ + 1]
       [] code = "EXPIRED" -> [counted EXCEPT !.expired = @ + 1]
       [] code = "REVOKED" -> [counted EXCEPT !.revoked = @ + 1]
       [] code = "DISABLED" -> [counted EXCEPT !.disabled = @ + 1]
       [] code = "NOT_FOUND" -> [counted EXCEPT !.notFound = @ + 1]
       [] OTHER -> counted

\* rollupStats that tallies the successful verifications only
RECURSIVE rollupStats_SuccessOnly(_, _, _)
rollupStats_SuccessOnly(ks, recentLogs, keyHash) ==
  IF recentLogs = << >>
  THEN LET id == keyByHash(ks, keyHash)
       IN [namespace |-> IF id # 0 /\ ks[id].namespace # "" THEN ks[id].namespace
                         ELSE "unknown"]
          @@ emptyStats
  ELSE LET last == recentLogs[Len(recentLogs)]
           stats == rollupStats_SuccessOnly(ks, SubSeq(recentLogs, 1, Len(recentLogs) - 1),
                                            keyHash)
       IN IF last.keyHash = keyHash /\ last.success THEN tallyLog(stats, last.code)
          ELSE stats

\* the entry of rollupsByKey for a key hash after the loop over recentLogs: the
\* namespace of the key of the hash ("unknown" without one) and the tally of
\* the logs of the hash
RECURSIVE rollupStats(_, _, _)
rollupStats(ks, recentLogs, keyHash) ==
  IF recentLogs = << >>
  THEN LET id == keyByHash(ks, keyHash)
       IN [namespace |-> IF id # 0 /\ ks[id].namespace # "" THEN ks[id].namespace
                         ELSE "unknown"]
          @@ emptyStats
  ELSE LET last == recentLogs[Len(recentLogs)]
           stats == rollupStats(ks, SubSeq(recentLogs, 1, Len(recentLogs) - 1), keyHash)
       IN IF last.keyHash = keyHash THEN tallyLog(stats, last.code) ELSE stats

\* the rollup.ts of an earlier revision: an existing hourly rollup is added to
upsertRollup_Additive(table, keyHash, stats, timestamp) ==
  LET matching == {i \in DOMAIN table : /\ table[i].keyHash = keyHash
                                        /\ table[i].period = "hour"
                                        /\ table[i].timestamp = timestamp}
  IN IF matching # {}
     THEN LET i == CHOOSE j \in matching : \A k \in matching : j <= k
              existing == table[i]
          IN [table EXCEPT ![i] = [@ EXCEPT !.valid = existing.valid + stats.valid,
                !.rateLimited = existing.rateLimited + stats.rateLimited,
                !.usageExceeded = existing.usageExceeded + stats.usageExceeded,
                !.expired = existing.expired + stats.expired,
                !.revoked = existing.revoked + stats.revoked,
                !.disabled = existing.disabled + stats.disabled,
                !.notFound = existing.notFound + stats.notFound,
                !.total = existing.total + stats.total]]
     ELSE Append(table, [keyHash |-> keyHash, period |-> "hour", timestamp |-> timestamp]
                        @@ stats)

\* rollupAnalytics, the body of its second loop: the first hourly rollup of the
\* key hash and the hour is patched with the tally, or one is inserted
upsertRollup(table, keyHash, stats, timestamp) ==
  LET matching == {i \in DOMAIN table : /\ table[i].keyHash = keyHash
                                        /\ table[i].period = "hour"
                                        /\ table[i].timestamp = timestamp}
  IN IF matching # {}
     THEN LET i == CHOOSE j \in matching : \A k \in matching : j <= k
          IN [table EXCEPT ![i] = [@ EXCEPT !.valid = stats.valid,
                !.rateLimited = stats.rateLimited,
                !.usageExceeded = stats.usageExceeded,
                !.expired = stats.expired,
                !.revoked = stats.revoked,
                !.disabled = stats.disabled,
                !.notFound = stats.notFound,
                !.total = stats.total]]
     ELSE Append(table, [keyHash |-> keyHash, period |-> "hour", timestamp |-> timestamp]
                        @@ stats)

\* rollupAnalytics, its second loop over the key hashes in the order of their
\* first log
RECURSIVE upsertRollups(_, _, _, _, _)
upsertRollups(table, keyHashes, ks, recentLogs, timestamp) ==
  IF keyHashes = << >> THEN table
  ELSE upsertRollups(upsertRollup(table, Head(keyHashes),
                                  rollupStats(ks, recentLogs, Head(keyHashes)), timestamp),
                     Tail(keyHashes), ks, recentLogs, timestamp)

\* the start of the hour of an instant: Math.floor(t / HOUR_MS) * HOUR_MS
hourStart(t) == (t \div HOUR_MS) * HOUR_MS

\* scheduled/rollup.ts rollupAnalytics: the logs of the hour before the current
\* one are tallied by key hash into the hourly rollups of that hour; nothing is
\* written when that hour has no log
RollupAnalytics ==
  /\ LET currentHourStart == hourStart(now)
         previousHourStart == currentHourStart - HOUR_MS
         recentLogs == SelectSeq(logs, LAMBDA l : /\ l.timestamp >= previousHourStart
                                                  /\ l.timestamp < currentHourStart)
         keyHashes == setOrder([i \in DOMAIN recentLogs |-> recentLogs[i].keyHash])
     IN IF recentLogs = << >>
        THEN UNCHANGED <<analyticsRollups, audit>>
        ELSE /\ analyticsRollups' = upsertRollups(analyticsRollups, keyHashes, keys,
                                                  recentLogs, previousHourStart)
             /\ audit' = Append(audit, auditEntry("cron.rollup_analytics",
                                                  [keysProcessed |-> Len(keyHashes),
                                                   logsProcessed |-> Len(recentLogs)],
                                                  None, None, now))
  /\ rollupRuns' = Append(rollupRuns, now)
  /\ UNCHANGED <<dailyRuns, issued, rbacVars, thrown, now, keys, nextId, buckets, overrides,
                 logs, results, rlResults, txns, created>>

\* one day: 24 * 60 * 60 * 1000 ms, in the ticks of the clock
DAY_MS == 24 * HOUR_MS

\* the start of the day of an instant: Math.floor(t / DAY_MS) * DAY_MS
dayStart(t) == (t \div DAY_MS) * DAY_MS

\* the sum of two accumulators, counter by counter
addStats(s, r) ==
  [s EXCEPT !.total = @ + r.total, !.valid = @ + r.valid,
            !.rateLimited = @ + r.rateLimited, !.usageExceeded = @ + r.usageExceeded,
            !.expired = @ + r.expired, !.revoked = @ + r.revoked,
            !.disabled = @ + r.disabled, !.notFound = @ + r.notFound]

\* the entry of byKey for a key hash after the loop over hourlyRollups: the
\* namespace of the first rollup of the hash and the sums of the counters
RECURSIVE dailyStats(_, _)
dailyStats(hourly, keyHash) ==
  IF hourly = << >> THEN emptyStats
  ELSE LET last == hourly[Len(hourly)]
           front == SubSeq(hourly, 1, Len(hourly) - 1)
           stats == dailyStats(front, keyHash)
       IN IF last.keyHash # keyHash THEN stats
          ELSE IF \E i \in DOMAIN front : front[i].keyHash = keyHash
               THEN addStats(stats, last)
               ELSE addStats([namespace |-> last.namespace] @@ emptyStats, last)

\* upsertDaily that adds the sums to an existing daily rollup
upsertDaily_Additive(table, keyHash, stats, timestamp) ==
  LET matching == {i \in DOMAIN table : /\ table[i].keyHash = keyHash
                                        /\ table[i].period = "day"
                                        /\ table[i].timestamp = timestamp}
  IN IF matching # {}
     THEN LET i == CHOOSE j \in matching : \A k \in matching : j <= k
          IN [table EXCEPT ![i] = addStats(@, stats)]
     ELSE Append(table, [keyHash |-> keyHash, period |-> "day", timestamp |-> timestamp]
                        @@ stats)

\* rollupDaily, the body of its second loop: the first daily rollup of the key
\* hash and the day is patched with the sums, or one is inserted
upsertDaily(table, keyHash, stats, timestamp) ==
  LET matching == {i \in DOMAIN table : /\ table[i].keyHash = keyHash
                                        /\ table[i].period = "day"
                                        /\ table[i].timestamp = timestamp}
  IN IF matching # {}
     THEN LET i == CHOOSE j \in matching : \A k \in matching : j <= k
          IN [table EXCEPT ![i] = [@ EXCEPT !.valid = stats.valid,
                !.rateLimited = stats.rateLimited,
                !.usageExceeded = stats.usageExceeded,
                !.expired = stats.expired,
                !.revoked = stats.revoked,
                !.disabled = stats.disabled,
                !.notFound = stats.notFound,
                !.total = stats.total]]
     ELSE Append(table, [keyHash |-> keyHash, period |-> "day", timestamp |-> timestamp]
                        @@ stats)

\* rollupDaily, its second loop over the key hashes in the order of their
\* first hourly rollup
RECURSIVE upsertDailies(_, _, _, _)
upsertDailies(table, keyHashes, hourly, timestamp) ==
  IF keyHashes = << >> THEN table
  ELSE upsertDailies(upsertDaily(table, Head(keyHashes),
                                 dailyStats(hourly, Head(keyHashes)), timestamp),
                     Tail(keyHashes), hourly, timestamp)

\* scheduled/rollup.ts rollupDaily: the hourly rollups of the day before the
\* current one are summed by key hash into the daily rollups of that day;
\* nothing is written when that day has no hourly rollup (every hourly rollup
\* carries the digest of its logs, so the "__ns__" entry is never used)
RollupDaily ==
  /\ LET currentDayStart == dayStart(now)
         previousDayStart == currentDayStart - DAY_MS
         hourly == SelectSeq(analyticsRollups,
                             LAMBDA r : /\ r.period = "hour"
                                        /\ r.timestamp >= previousDayStart
                                        /\ r.timestamp < currentDayStart)
         keyHashes == setOrder([i \in DOMAIN hourly |-> hourly[i].keyHash])
     IN IF hourly = << >>
        THEN UNCHANGED <<analyticsRollups, audit>>
        ELSE /\ analyticsRollups' = upsertDailies(analyticsRollups, keyHashes, hourly,
                                                  previousDayStart)
             /\ audit' = Append(audit, auditEntry("cron.rollup_daily",
                                                  [keysProcessed |-> Len(keyHashes),
                                                   hourlyRollupsProcessed |-> Len(hourly)],
                                                  None, None, now))
  /\ dailyRuns' = Append(dailyRuns, now)
  /\ UNCHANGED <<rollupRuns, issued, rbacVars, thrown, now, keys, nextId, buckets, overrides,
                 logs, results, rlResults, txns, created>>

\* admin.ts purgeVerificationLogs: deletes the logs older than the cutoff
PurgeVerificationLogs(olderThan) ==
  /\ LET oldLogs == SelectSeq(logs, LAMBDA l : l.timestamp < olderThan)
     IN /\ logs' = SelectSeq(logs, LAMBDA l : ~(l.timestamp < olderThan))
        /\ audit' = Append(audit, auditEntry("admin.purge_verification_logs",
                                             [olderThan |-> olderThan,
                                              count |-> Len(oldLogs)],
                                             None, None, now))
  /\ UNCHANGED <<issued, rollupVars, rbacVars, thrown, now, keys, nextId, buckets, overrides,
                 results, rlResults, txns, created>>

----------------------------------------------------------------------------
(* Specification Spec: the lifecycle of keys and their verification *)

NoArgs == [expires |-> None, remaining |-> None, refill |-> None, ratelimit |-> None]

\* the arguments of create that the specification draws from
CreateArgs ==
  { NoArgs,
    [NoArgs EXCEPT !.expires = Some(0)],
    [NoArgs EXCEPT !.expires = Some(2)],
    [NoArgs EXCEPT !.remaining = Some(1)],
    [NoArgs EXCEPT !.remaining = Some(0),
                   !.refill = Some([amount |-> 1, interval |-> "hourly"])],
    [NoArgs EXCEPT !.ratelimit = Some([limit |-> 1, duration |-> 2])] }

NoPatch == [expires |-> None, remaining |-> None, enabled |-> None, ratelimit |-> None]

\* the arguments of update that the specification draws from
Patches ==
  { [NoPatch EXCEPT !.enabled = Some(FALSE)],
    [NoPatch EXCEPT !.enabled = Some(TRUE)],
    [NoPatch EXCEPT !.expires = Some(1)],
    [NoPatch EXCEPT !.remaining = Some(-1)] }

Init ==
  /\ now = 1
  /\ keys = << >>
  /\ nextId = 1
  /\ buckets = << >>
  /\ overrides = << >>
  /\ logs = << >>
  /\ audit = << >>
  /\ results = << >>
  /\ rlResults = << >>
  /\ txns = << >>
  /\ created = << >>
  /\ permissions = << >>
  /\ roles = << >>
  /\ nextPermissionId = 1
  /\ nextRoleId = 1
  /\ analyticsRollups = << >>
  /\ rollupRuns = << >>
  /\ dailyRuns = << >>
  /\ issued = << >>
  /\ thrown = << >>

\* the plaintexts a caller can present: those returned by create and rotate so
\* far, and one that is never generated
Presentable == {p \in Plaintexts : p < nextId \/ p = MaxKeys + 1}

\* the budget of operations of a behaviour
OpsLeft == Len(logs) + Len(audit) < MaxOps

Next ==
  \/ OpsLeft /\ \E o \in Owners, a \in CreateArgs :
        Create(o, DefaultNamespace, a.expires, a.remaining, a.refill, a.ratelimit)
  \/ OpsLeft /\ \E id \in DOMAIN keys, soft \in {None, Some(FALSE)} : Revoke(id, soft)
  \/ OpsLeft /\ \E id \in DOMAIN keys, patch \in Patches : Update(id, patch)
  \/ OpsLeft /\ \E id \in DOMAIN keys, g \in {None, Some(1)} : Rotate(id, g)
  \/ OpsLeft /\ \E p \in Presentable : Verify(p)
  \/ Tick

Spec == Init /\ [][Next]_vars

----------------------------------------------------------------------------
(* Specification SpecCredits: keys with usage credits, updated and verified *)

\* one key is created; it is updated at most once
NextCredits ==
  \/ nextId = 1 /\ \E o \in Owners, n \in 0..MaxCredits :
        Create(o, DefaultNamespace, None, Some(n), None, None)
  \/ Len(audit) < 2 /\ \E id \in DOMAIN keys, r \in {0, MaxCredits} :
        Update(id, [NoPatch EXCEPT !.remaining = Some(r)])
  \/ Len(logs) < MaxCredits + 2 /\ \E p \in Presentable : Verify(p)
  \/ Tick

SpecCredits == Init /\ [][NextCredits]_vars

----------------------------------------------------------------------------
(* Mutations as transactions.  A mutation runs its handler on a snapshot of   *)
(* the database taken when it starts; it commits when the documents and index *)
(* ranges it read are unchanged, and is run again on a new snapshot otherwise. *)

database == [keys |-> keys, buckets |-> buckets, overrides |-> overrides,
             permissions |-> permissions, roles |-> roles]

\* the documents of an index range by_key_namespace
docsByKeyNamespace(table, identifier, namespace) ==
  SelectSeq(table, LAMBDA d : d.keyOrOwnerId = identifier /\ d.namespace = namespace)

\* what the handler of verify, run at time t, reads of database d: the key
\* document and, when it gets as far as the rate limit, the override and the
\* bucket of the key
verifyReadSet(d, plaintext, t) ==
  LET hash == hashKey(plaintext)
      id == keyByHash(d.keys, hash)
      keyRecord == applyRefillIfNeeded(d.keys[id], t)
  IN IF id = 0 THEN <<None>>
     ELSE IF \/ checkKeyValidity(d.keys[id], t) # "OK"
             \/ (keyRecord.remaining # None /\ keyRecord.remaining[1] <= 0)
             \/ keyRecord.ratelimit = None
     THEN <<Some(d.keys[id])>>
     ELSE <<Some(d.keys[id]),
            docsByKeyNamespace(d.overrides, hash, d.keys[id].namespace),
            docsByKeyNamespace(d.buckets, hash, d.keys[id].namespace)>>

\* what the handler of checkRateLimit reads of database d
checkReadSet(d, args) == docsByKeyNamespace(d.buckets, args.identifier, args.namespace)

\* the documents of an index range by_name
docsByName(table, name) == SelectSeq(table, LAMBDA d : d.name = name)

readSet(d, txn) ==
  CASE txn.op = "verify" -> verifyReadSet(d, txn.key, txn.at)
    [] txn.op = "check" -> checkReadSet(d, txn.args)
    [] txn.op = "createPermission" -> docsByName(d.permissions, txn.args.name)
    [] txn.op = "createRole" -> docsByName(d.roles, txn.args.name)

\* a transaction that commits without checking what it read
readSetUnchanged_NoCheck(txn) == TRUE

\* the validation of a running transaction against the current database
readSetUnchanged(txn) == readSet(txn.snap, txn) = readSet(database, txn)

\* the writes of a handler to a table of which it saw snap and left out:
\* patches of documents it saw, then its inserts
applyWrites(table, snap, out) ==
  [i \in 1..Len(table) |->
     IF i <= Len(snap) /\ out[i] # snap[i] THEN out[i] ELSE table[i]]
  \o SubSeq(out, Len(snap) + 1, Len(out))

\* the key documents after the writes of a verify handler that saw snap
applyKeyWrites(table, snap, out) ==
  [id \in DOMAIN table |->
     IF id \in DOMAIN snap /\ out[id] # snap[id] THEN out[id] ELSE table[id]]

BeginVerify(plaintext) ==
  /\ txns' = Append(txns, [op |-> "verify", key |-> plaintext, status |-> "running",
                           at |-> now, runs |-> 1, snap |-> database])
  /\ UNCHANGED <<issued, rollupVars, rbacVars,
                 thrown, now, keys, nextId, buckets, overrides, logs, audit, results,
                 rlResults, created>>

BeginCheck(identifier, namespace, limit, duration) ==
  /\ txns' = Append(txns, [op |-> "check", status |-> "running", at |-> now, runs |-> 1,
                           args |-> [identifier |-> identifier, namespace |-> namespace,
                                     limit |-> limit, duration |-> duration],
                           snap |-> database])
  /\ UNCHANGED <<issued, rollupVars, rbacVars,
                 thrown, now, keys, nextId, buckets, overrides, logs, audit, results,
                 rlResults, created>>

\* a conflict: the handler is run again, on the current database
Retry(i) ==
  /\ txns[i].status = "running"
  /\ ~readSetUnchanged(txns[i])
  /\ txns' = [txns EXCEPT ![i].snap = database, ![i].at = now,
                            ![i].runs = txns[i].runs + 1]
  /\ UNCHANGED <<issued, rollupVars, rbacVars,
                 thrown, now, keys, nextId, buckets, overrides, logs, audit, results,
                 rlResults, created>>

CommitVerify(i) ==
  /\ txns[i].status = "running"
  /\ txns[i].op = "verify"
  /\ readSetUnchanged(txns[i])
  /\ LET out == verifyHandler(txns[i].snap, txns[i].key, txns[i].at)
     IN /\ keys' = applyKeyWrites(keys, txns[i].snap.keys, out.keys)
        /\ buckets' = applyWrites(buckets, txns[i].snap.buckets, out.buckets)
        /\ logs' = logs \o out.logs
        /\ results' = Append(results, [key |-> txns[i].key, at |-> txns[i].at,
                                       ret |-> out.result])
  /\ txns' = [txns EXCEPT ![i].status = "done", ![i].snap = None]
  /\ UNCHANGED <<issued, rollupVars,
                 rbacVars, thrown, now, nextId, overrides, audit, rlResults, created>>

CommitCheck(i) ==
  /\ txns[i].status = "running"
  /\ txns[i].op = "check"
  /\ assertPositive(txns[i].args.limit)
  /\ assertPositive(txns[i].args.duration)
  /\ readSetUnchanged(txns[i])
  /\ LET a == txns[i].args
         rl == checkAndUpdateRateLimit(txns[i].snap.buckets, a.identifier, a.namespace,
                                       a.limit, a.duration, txns[i].at)
     IN /\ buckets' = applyWrites(buckets, txns[i].snap.buckets, rl.buckets)
        /\ rlResults' = Append(rlResults, [identifier |-> a.identifier,
                                           namespace |-> a.namespace,
                                           limit |-> a.limit, duration |-> a.duration,
                                           at |-> txns[i].at, success |-> rl.success,
                                           remaining |-> rl.remaining, reset |-> rl.reset])
  /\ txns' = [txns EXCEPT ![i].status = "done", ![i].snap = None]
  /\ UNCHANGED <<issued, rollupVars, rbacVars,
                 thrown, now, keys, nextId, overrides, logs, audit, results, created>>

BeginCreatePermission(name) ==
  /\ txns' = Append(txns, [op |-> "createPermission", status |-> "running", at |-> now,
                           runs |-> 1, args |-> [name |-> name], snap |-> database])
  /\ UNCHANGED <<issued, rollupVars, rbacVars,
                 thrown, now, keys, nextId, buckets, overrides, logs, audit, results,
                 rlResults, created>>

BeginCreateRole(name, permissionIds) ==
  /\ txns' = Append(txns, [op |-> "createRole", status |-> "running", at |-> now, runs |-> 1,
                           args |-> [name |-> name, permissionIds |-> permissionIds],
                           snap |-> database])
  /\ UNCHANGED <<issued, rollupVars, rbacVars,
                 thrown, now, keys, nextId, buckets, overrides, logs, audit, results,
                 rlResults, created>>

\* the handler of createPermission ends: it throws when it saw a permission of
\* the name, and commits its insert otherwise
CommitCreatePermission(i) ==
  /\ txns[i].status = "running"
  /\ txns[i].op = "createPermission"
  /\ IF firstByName(txns[i].snap.permissions, txns[i].args.name) # 0
     THEN /\ thrown' = Append(thrown, [mutation |-> "createPermission",
                                       message |-> "Permission already exists"])
          /\ UNCHANGED <<issued, rollupVars, rbacVars, audit>>
     ELSE /\ readSetUnchanged(txns[i])
          /\ nextPermissionId <= MaxPermissions
          /\ LET permissionId == newId("permissions", nextPermissionId)
             IN /\ permissions' = Append(permissions,
                                         [_id |-> permissionId, name |-> txns[i].args.name,
                                          createdAt |-> txns[i].at])
                /\ audit' = Append(audit, auditEntry("permission.created",
                                     [permissionId |-> permissionId,
                                      name |-> txns[i].args.name],
                                     None, None, txns[i].at))
          /\ nextPermissionId' = nextPermissionId + 1
          /\ UNCHANGED <<roles, nextRoleId, thrown>>
  /\ txns' = [txns EXCEPT ![i].status = "done", ![i].snap = None]
  /\ UNCHANGED <<issued, rollupVars,
                 now, keys, nextId, buckets, overrides, logs, results, rlResults, created>>

\* the handler of createRole ends
CommitCreateRole(i) ==
  /\ txns[i].status = "running"
  /\ txns[i].op = "createRole"
  /\ IF firstByName(txns[i].snap.roles, txns[i].args.name) # 0
     THEN /\ thrown' = Append(thrown, [mutation |-> "createRole",
                                       message |-> "Role already exists"])
          /\ UNCHANGED <<issued, rollupVars, rbacVars, audit>>
     ELSE /\ readSetUnchanged(txns[i])
          /\ nextRoleId <= MaxRoles
          /\ LET roleId == newId("roles", nextRoleId)
             IN /\ roles' = Append(roles, [_id |-> roleId, name |-> txns[i].args.name,
                                           permissionIds |-> txns[i].args.permissionIds,
                                           createdAt |-> txns[i].at])
                /\ audit' = Append(audit, auditEntry("role.created",
                                     [roleId |-> roleId, name |-> txns[i].args.name],
                                     None, None, txns[i].at))
          /\ nextRoleId' = nextRoleId + 1
          /\ UNCHANGED <<permissions, nextPermissionId, thrown>>
  /\ txns' = [txns EXCEPT ![i].status = "done", ![i].snap = None]
  /\ UNCHANGED <<issued, rollupVars,
                 now, keys, nextId, buckets, overrides, logs, results, rlResults, created>>

----------------------------------------------------------------------------
(* Specification SpecTxn: concurrent verify and checkRateLimit transactions   *)
(* on one key                                                                 *)

\* no transaction is running: a transaction commits, or conflicts and runs
\* again, within one unit of the clock
quiescent == \A i \in 1..Len(txns) : txns[i].status = "done"

TxnRateLimits == {[limit |-> 1, duration |-> 1], [limit |-> 2, duration |-> 1]}

NextTxn ==
  \/ nextId = 1 /\ \E o \in Owners, n \in 0..MaxCredits,
                      rl \in {None} \cup {Some(x) : x \in TxnRateLimits} :
        Create(o, DefaultNamespace, None, Some(n), None, rl)
  \/ nextId = 1 /\ \E o \in Owners, rl \in TxnRateLimits :
        Create(o, DefaultNamespace, None, None, None, Some(rl))
  \/ Len(txns) < MaxTxns /\ \E p \in 1..(nextId - 1) : BeginVerify(p)
  \/ Len(txns) < MaxTxns /\ \E id \in DOMAIN keys :
        /\ keys[id].ratelimit # None
        /\ BeginCheck(keys[id].hash, keys[id].namespace,
                      keys[id].ratelimit[1].limit, keys[id].ratelimit[1].duration)
  \/ \E i \in 1..Len(txns) : Retry(i)
  \/ \E i \in 1..Len(txns) : CommitVerify(i)
  \/ \E i \in 1..Len(txns) : CommitCheck(i)
  \/ quiescent /\ Tick

SpecTxn == Init /\ [][NextTxn]_vars

-----------------------------------------------------------------------------
(* Specification SpecNamespace: a key of either namespace with a rate-limit   *)
(* policy and an override, verified with every namespace argument            *)

KeyNamespaces == {DefaultNamespace, "tenant"}

NamespaceArgs == {None} \cup {Some(n) : n \in KeyNamespaces}

NextNamespace ==
  \/ nextId = 1 /\ \E o \in Owners, n \in KeyNamespaces :
        Create(o, n, None, None, None, Some([limit |-> 1, duration |-> 2]))
  \/ overrides = << >> /\ \E id \in DOMAIN keys : SetRateLimitOverride(id, 2, 1)
  \/ Len(results) < MaxChecks /\ \E p \in 1..(nextId - 1), n \in NamespaceArgs :
        VerifyArgs([key |-> p, namespace |-> n])
  \/ Tick

SpecNamespace == Init /\ [][NextNamespace]_vars

----------------------------------------------------------------------------
(* Specification SpecExpire: keys with and without an expires, enabled and     *)
(* disabled by update, verified while the clock passes and expireKeys runs    *)

EnabledPatches ==
  {[expires |-> None, remaining |-> None, enabled |-> Some(e), ratelimit |-> None] :
     e \in BOOLEAN}

NextExpire ==
  \/ now = 1 /\ nextId <= 2 /\ \E o \in Owners, e \in {None, Some(1), Some(2)} :
        Create(o, DefaultNamespace, e, None, None, None)
  \/ (\A i \in DOMAIN audit : audit[i].action # "key.updated") /\
        \E id \in DOMAIN keys, patch \in EnabledPatches : Update(id, patch)
  \/ Len(results) < MaxKeys /\ \E p \in 1..(nextId - 1) : Verify(p)
  \/ ExpireKeys
  \/ Tick

SpecExpire == Init /\ [][NextExpire]_vars /\ WF_vars(ExpireKeys)

----------------------------------------------------------------------------
(* Specification SpecCommute: two keys of a namespace with and without credits *)
(* and a rate-limit policy, verified in any order                             *)

NextCommute ==
  \/ now = 1 /\ nextId <= 2 /\ \E o \in Owners, n \in {None, Some(1)},
                   rl \in {None, Some([limit |-> 1, duration |-> 1])} :
        Create(o, DefaultNamespace, None, n, None, rl)
  \/ Len(results) < MaxChecks /\ \E p \in Presentable : Verify(p)
  \/ Tick

SpecCommute == Init /\ [][NextCommute]_vars

----------------------------------------------------------------------------
(* Specification SpecRevoked: a key that is revoked or rotated, then updated,  *)
(* assigned roles and permissions, given an override, swept and verified      *)

\* the keys whose revokedAt is set
revokedKeys == {id \in DOMAIN keys : keys[id].revokedAt # None}

NextRevoked ==
  \/ nextId = 1 /\ \E o \in Owners :
        Create(o, DefaultNamespace, Some(1), Some(1),
               Some([amount |-> 1, interval |-> "hourly"]),
               Some([limit |-> 1, duration |-> 1]))
  \/ revokedKeys = {} /\ \E id \in DOMAIN keys, soft \in {None, Some(FALSE)} :
        Revoke(id, soft)
  \/ revokedKeys = {} /\ nextId = 2 /\ \E id \in DOMAIN keys : Rotate(id, None)
  \/ Len(audit) < MaxOps /\ \E id \in revokedKeys :
        \/ Update(id, [NoPatch EXCEPT !.enabled = Some(TRUE)])
        \/ AssignRoles(id, << >>)
        \/ AssignPermissions(id, << >>)
        \/ SetRateLimitOverride(id, 2, 1)
        \/ Revoke(id, Some(FALSE))
  \/ ExpireKeys
  \/ Len(results) < MaxKeys /\ \E p \in 1..(nextId - 1) : Verify(p)
  \/ Tick

SpecRevoked == Init /\ [][NextRevoked]_vars

----------------------------------------------------------------------------
(* Specification SpecLimits: one key with a rate-limit policy, its override    *)
(* set and deleted while it is verified                                       *)

KeyRateLimits == {[limit |-> 1, duration |-> 1], [limit |-> 2, duration |-> 2]}

OverrideRateLimits == {[limit |-> 3, duration |-> 1], [limit |-> 1, duration |-> 2]}

NextLimits ==
  \/ nextId = 1 /\ \E o \in Owners, rl \in KeyRateLimits :
        Create(o, DefaultNamespace, None, None, None, Some(rl))
  \/ Len(audit) < MaxOps /\ \E id \in DOMAIN keys, rl \in OverrideRateLimits :
        SetRateLimitOverride(id, rl.limit, rl.duration)
  \/ Len(audit) < MaxOps /\ \E id \in DOMAIN keys : DeleteRateLimitOverride(id)
  \/ Len(results) < MaxChecks /\ \E p \in 1..(nextId - 1) : Verify(p)
  \/ Tick

SpecLimits == Init /\ [][NextLimits]_vars

-----------------------------------------------------------------------------
(* Specification SpecCheck: checkRateLimit on its own *)

Identifiers == {"user-a", "user-b"}

CheckLimits == {1, 2}

CheckDurations == {1, 2}

NextCheck ==
  \/ Len(rlResults) < MaxChecks /\ \E i \in Identifiers, l \in CheckLimits, d \in CheckDurations :
        CheckRateLimit(i, DefaultNamespace, l, d)
  \/ Tick

SpecCheck == Init /\ [][NextCheck]_vars

-----------------------------------------------------------------------------
(* Specification SpecOwner: the keys of one owner under a shared owner limit *)

OwnerRateLimits == {[limit |-> 1, duration |-> 2], [limit |-> 2, duration |-> 1]}

NextOwner ==
  \/ Len(audit) < MaxOps /\ \E o \in Owners :
        Create(o, DefaultNamespace, None, Some(1), None, None)
  \/ Len(audit) < MaxOps /\ \E o \in Owners :
        Create(o, DefaultNamespace, None, None, None, Some([limit |-> 2, duration |-> 2]))
  \/ Len(audit) < MaxOps /\ \E o \in Owners, rl \in OwnerRateLimits :
        SetOwnerRateLimit(o, DefaultNamespace, rl.limit, rl.duration)
  \/ Len(audit) < MaxOps /\ \E o \in Owners : DeleteOwnerRateLimit(o, DefaultNamespace)
  \/ Len(results) < MaxKeys /\ \E p \in 1..(nextId - 1) : Verify(p)
  \/ Tick

SpecOwner == Init /\ [][NextOwner]_vars

-----------------------------------------------------------------------------
(* Specification SpecRefill: one key with a refill policy, verified at        *)
(* instants around the four interval spans                                    *)

RefillIntervals == {"hourly", "daily", "weekly", "monthly"}

\* the instants the clock takes: the first ones, and each span and the hour after
RefillInstants ==
  (1..MaxTime) \cup UNION {{REFILL_INTERVALS(i), REFILL_INTERVALS(i) + 1} : i \in RefillIntervals}

\* the clock moves on to a later instant
Advance(t) ==
  /\ t > now
  /\ now' = t
  /\ UNCHANGED <<issued, rollupVars, rbacVars,
                 thrown, keys, nextId, buckets, overrides, logs, audit, results,
                 rlResults,
                 txns, created>>

NextRefill ==
  \/ nextId = 1 /\ \E o \in Owners, n \in 0..1, amount \in 1..MaxCredits,
                      i \in RefillIntervals,
                      rl \in {None, Some([limit |-> 1, duration |-> 24])} :
        Create(o, DefaultNamespace, None, Some(n),
               Some([amount |-> amount, interval |-> i]), rl)
  \/ Len(results) < MaxChecks /\ \E p \in 1..(nextId - 1) : Verify(p)
  \/ \E t \in RefillInstants : Advance(t)

SpecRefill == Init /\ [][NextRefill]_vars

-----------------------------------------------------------------------------
(* Specification SpecRevoke: one key, revoked softly or hard, re-enabled,     *)
(* purged and verified                                                        *)

NextRevoke ==
  \/ nextId = 1 /\ \E o \in Owners, e \in {None, Some(2)} :
        Create(o, DefaultNamespace, e, None, None, None)
  \/ Len(audit) < MaxOps /\ \E id \in DOMAIN keys, soft \in {None, Some(TRUE), Some(FALSE)} :
        Revoke(id, soft)
  \/ Len(audit) < MaxOps /\ \E id \in DOMAIN keys :
        Update(id, [NoPatch EXCEPT !.enabled = Some(TRUE)])
  \/ Len(audit) < MaxOps /\ \E olderThan \in {None, Some(MaxTime)} :
        PurgeExpiredKeys(DefaultNamespace, olderThan)
  \/ Len(results) < MaxKeys /\ \E p \in 1..(nextId - 1) : Verify(p)
  \/ Tick

SpecRevoke == Init /\ [][NextRevoke]_vars

-----------------------------------------------------------------------------
(* Specification SpecRotate: one key, rotated with or without a grace period, *)
(* the old and the new key verified up to and past the end of the grace       *)

\* the key rotated has no policy, one credit, an expiry, or one credit and a
\* refill
RotateArgs ==
  { NoArgs,
    [NoArgs EXCEPT !.remaining = Some(1)],
    [NoArgs EXCEPT !.expires = Some(2)],
    [NoArgs EXCEPT !.remaining = Some(1),
                   !.refill = Some([amount |-> 1, interval |-> "hourly"])] }

\* the instants of the clock: the end of a grace period of 1 that starts at 1,
\* and one after the end of every grace period
RotateInstants == {2, MaxTime + 1}

NextRotate ==
  \/ nextId = 1 /\ \E o \in Owners, a \in RotateArgs :
        Create(o, DefaultNamespace, a.expires, a.remaining, a.refill, a.ratelimit)
  \/ Len(audit) < MaxOps /\ \E id \in DOMAIN keys \cap {1}, g \in {None, Some(1)} : Rotate(id, g)
  \/ Len(audit) < MaxKeys /\ \E id \in DOMAIN keys \cap {1} : Revoke(id, None)
  \/ Len(results) < MaxChecks /\ \E p \in 1..(nextId - 1) : Verify(p)
  \/ \E t \in RotateInstants : Advance(t)

SpecRotate == Init /\ [][NextRotate]_vars

----------------------------------------------------------------------------
(* Specification SpecRbac: permissions and roles, a key that holds some, and  *)
(* its verification                                                          *)

PermissionNames == {"keys:read", "keys:write"}
RoleNames == {"viewer"}

\* lists of permission ids: in both orders, with a repetition, and with the id
\* of a permission that may not exist
PermissionIdLists ==
  LET p1 == newId("permissions", 1)
      p2 == newId("permissions", 2)
  IN {<<p1>>, <<p2, p1>>, <<p1, p2, p1>>}

\* lists of role ids: the second role may not exist
RoleIdLists ==
  LET r1 == newId("roles", 1)
      r2 == newId("roles", 2)
  IN {<<r1>>, <<r2, r1>>}

\* the key has no policy, one credit, or a limit of one call per window
RbacArgs ==
  { NoArgs,
    [NoArgs EXCEPT !.remaining = Some(1)],
    [NoArgs EXCEPT !.ratelimit = Some([limit |-> 1, duration |-> 1])] }

NextRbac ==
  \/ \E name \in PermissionNames :
        firstByName(permissions, name) = 0 /\ CreatePermission(name)
  \/ \E name \in RoleNames, ps \in PermissionIdLists :
        firstByName(roles, name) = 0 /\ CreateRole(name, ps)
  \/ nextId = 1 /\ \E o \in Owners, a \in RbacArgs,
                      ps \in {None} \cup {Some(l) : l \in PermissionIdLists},
                      rs \in {None} \cup {Some(l) : l \in RoleIdLists} :
        CreateWith(o, DefaultNamespace, a.expires, a.remaining, a.refill, a.ratelimit, ps, rs)
  \/ \E id \in DOMAIN keys : keys[id].revokedAt = None /\ Revoke(id, None)
  \/ Len(results) < MaxKeys /\ \E p \in Presentable : nextId > 1 /\ Verify(p)

SpecRbac == Init /\ [][NextRbac]_vars

----------------------------------------------------------------------------
(* Specification SpecErrors: mutations called with the id of no key and with *)
(* limits and durations that are not positive                                *)

\* the ids of the keys that exist and of keys that do not
KeyIds == 1..MaxKeys

ErrPatches == {[NoPatch EXCEPT !.enabled = Some(FALSE)], [NoPatch EXCEPT !.remaining = Some(1)]}

ErrLimits == {-1, 0, 1}

ErrDurations == {0, 1}

\* the budget of calls of a behaviour
CallsLeft == Len(audit) + Len(thrown) + Len(rlResults) < MaxOps

NextErrors ==
  \/ CallsLeft /\ \E o \in Owners : Create(o, DefaultNamespace, None, None, None, None)
  \/ CallsLeft /\ \E id \in KeyIds, soft \in {None, Some(FALSE)} : Revoke(id, soft)
  \/ CallsLeft /\ \E id \in KeyIds, patch \in ErrPatches : Update(id, patch)
  \/ CallsLeft /\ \E id \in KeyIds, g \in {None, Some(1)} : Rotate(id, g)
  \/ CallsLeft /\ \E id \in KeyIds, rs \in RoleIdLists : AssignRoles(id, rs)
  \/ CallsLeft /\ \E id \in KeyIds, ps \in PermissionIdLists : AssignPermissions(id, ps)
  \/ CallsLeft /\ \E id \in KeyIds, l \in ErrLimits, d \in ErrDurations :
        SetRateLimitOverride(id, l, d)
  \/ CallsLeft /\ \E l \in ErrLimits, d \in ErrDurations :
        CheckRateLimit(hashKey(1), DefaultNamespace, l, d)

SpecErrors == Init /\ [][NextErrors]_vars

----------------------------------------------------------------------------
(* Specification SpecNames: permissions and roles created, also concurrently, *)
(* and deleted                                                                *)

NextNames ==
  \/ Len(txns) < MaxTxns /\ \E name \in PermissionNames : BeginCreatePermission(name)
  \/ Len(txns) < MaxTxns /\ \E name \in RoleNames : BeginCreateRole(name, << >>)
  \/ \E i \in 1..Len(txns) : Retry(i)
  \/ \E i \in 1..Len(txns) : CommitCreatePermission(i)
  \/ \E i \in 1..Len(txns) : CommitCreateRole(i)
  \/ Len(audit) < MaxOps /\ \E i \in 1..Len(permissions) : DeletePermission(permissions[i]._id)
  \/ Len(audit) < MaxOps /\ \E i \in 1..Len(roles) : DeleteRole(roles[i]._id)

SpecNames == Init /\ [][NextNames]_vars

-----------------------------------------------------------------------------
(* Specification SpecRollup: one key and an unknown one are verified over     *)
(* three hours, the logs are rolled up, again and again, and purged           *)

\* the instants the clock takes: the half hours of the first hours
RollupInstants == 1 .. (MaxTime + HOUR_MS)

\* no purge of the logs has run
neverPurged == \A i \in DOMAIN audit : audit[i].action # "admin.purge_verification_logs"

NextRollup ==
  \/ nextId = 1 /\ now = 1 /\ \E o \in Owners :
        Create(o, DefaultNamespace, None, Some(1), None, None)
  \/ Len(results) < MaxKeys /\ \E p \in Presentable : Verify(p)
  \/ Len(rollupRuns) < MaxKeys /\ RollupAnalytics
  \/ neverPurged /\ \E olderThan \in {hourStart(now) - 1, now} : PurgeVerificationLogs(olderThan)
  \/ \E t \in RollupInstants : Advance(t)

SpecRollup == Init /\ [][NextRollup]_vars

-----------------------------------------------------------------------------
(* Specification SpecCodec: keys are created with the prefixes and the        *)
(* numbers of random bytes of a caller, rotated and verified                  *)

\* the prefixes a caller passes: none, one with two underscores, one with none
CodecPrefixes ==
  {None, Some(<<"s", "k", "_", "l", "i", "v", "e", "_">>), Some(<<"p", "k">>)}

\* the keyBytes a caller passes
CodecKeyBytes == {None, Some(1), Some(6)}

\* the arguments of create of the specification
CodecArgs ==
  {[prefix |-> p, keyBytes |-> b, ownerId |-> o, namespace |-> DefaultNamespace,
    expires |-> None, remaining |-> None, refill |-> None, ratelimit |-> None,
    permissions |-> None, roles |-> None] : p \in CodecPrefixes, b \in CodecKeyBytes, o \in Owners}

NextCodec ==
  \/ \E args \in CodecArgs, randomBytes \in ShortValues \cup {randomValues(nextId)} :
        CreateKey(args, randomBytes)
  \/ \E id \in DOMAIN keys : Rotate(id, None)
  \/ results = << >> /\ \E p \in Presentable : Verify(p)

SpecCodec == Init /\ [][NextCodec]_vars

-----------------------------------------------------------------------------
(* Specification SpecSpend: one key with credits, with or without a refill    *)
(* and a rate limit, is verified, revoked softly and verified again           *)

\* the refill policies of the key: none, and hourly ones that give 0 or 1 credit
SpendRefills == {None} \cup {Some([amount |-> a, interval |-> "hourly"]) : a \in 0..1}

NextSpend ==
  \/ nextId = 1 /\ \E o \in Owners, n \in 0..(MaxCredits + 1), refill \in SpendRefills,
                      rl \in {None, Some([limit |-> 1, duration |-> 24])} :
        Create(o, DefaultNamespace, None, Some(n), refill, rl)
  \/ \E id \in DOMAIN keys : keys[id].revokedAt = None /\ Revoke(id, None)
  \/ Len(results) < MaxChecks /\ \E p \in Presentable : Verify(p)
  \/ \E t \in 1..MaxTime : Advance(t)

SpecSpend == Init /\ [][NextSpend]_vars

-----------------------------------------------------------------------------
(* Specification SpecPlain: one key created without credits and without a     *)
(* rate-limit policy, given an override, updated and verified                 *)

\* the updates of the key: credits, a rate-limit policy, disabled
PlainPatches ==
  { [NoPatch EXCEPT !.remaining = Some(0)],
    [NoPatch EXCEPT !.ratelimit = Some([limit |-> 1, duration |-> 1])],
    [NoPatch EXCEPT !.enabled = Some(FALSE)] }

NextPlain ==
  \/ nextId = 1 /\ \E o \in Owners,
                      refill \in {None, Some([amount |-> 1, interval |-> "hourly"])} :
        Create(o, DefaultNamespace, Some(2), None, refill, None)
  \/ Len(audit) < MaxOps /\ \E id \in DOMAIN keys : SetRateLimitOverride(id, 1, 1)
  \/ Len(audit) < MaxOps /\ \E id \in DOMAIN keys, patch \in PlainPatches : Update(id, patch)
  \/ Len(results) < MaxChecks /\ \E p \in 1..(nextId - 1) : Verify(p)
  \/ Tick

SpecPlain == Init /\ [][NextPlain]_vars

-----------------------------------------------------------------------------
(* Specification SpecAudit: keys are created, updated, rotated and revoked,   *)
(* softly and hard                                                            *)

\* the arguments of create and of update of the specification
AuditArgs == {NoArgs, [NoArgs EXCEPT !.remaining = Some(1)]}
AuditPatches == {NoPatch, [NoPatch EXCEPT !.enabled = Some(FALSE)]}

NextAudit ==
  \/ nextId = 1 /\ \E o \in Owners, a \in AuditArgs :
        Create(o, DefaultNamespace, a.expires, a.remaining, a.refill, a.ratelimit)
  \/ Len(audit) < MaxOps /\ \E id \in DOMAIN keys, soft \in {None, Some(TRUE), Some(FALSE)} :
        Revoke(id, soft)
  \/ Len(audit) < MaxOps /\ \E id \in DOMAIN keys, patch \in AuditPatches : Update(id, patch)
  \/ Len(audit) < MaxOps /\ \E id \in DOMAIN keys, g \in {None, Some(1)} : Rotate(id, g)
  \/ Tick

SpecAudit == Init /\ [][NextAudit]_vars

-----------------------------------------------------------------------------
(* Specification SpecBurst: one bucket under a constant limit and duration *)

\* the calls of a behaviour all carry the limit and the duration of the first
sameLimit(limit, duration) ==
  IF buckets = << >> THEN TRUE
  ELSE limit = buckets[1].limit /\ duration = buckets[1].duration

NextBurst ==
  \/ /\ Len(rlResults) < MaxChecks + 2
     /\ \E l \in CheckLimits, d \in CheckDurations :
          sameLimit(l, d) /\ CheckRateLimit("user-a", DefaultNamespace, l, d)
  \/ Tick

SpecBurst == Init /\ [][NextBurst]_vars

-----------------------------------------------------------------------------
(* Specification SpecDangling: permissions and roles are deleted while a key  *)
(* still holds their ids, and the key is verified                             *)

NextDangling ==
  \/ /\ Len(audit) < MaxOps + 2
     /\ \/ \E name \in PermissionNames :
              firstByName(permissions, name) = 0 /\ CreatePermission(name)
        \/ \E name \in RoleNames, ps \in PermissionIdLists :
              firstByName(roles, name) = 0 /\ CreateRole(name, ps)
        \/ nextId = 1 /\ \E o \in Owners,
                            ps \in {None} \cup {Some(l) : l \in PermissionIdLists},
                            rs \in {None} \cup {Some(l) : l \in RoleIdLists} :
              CreateWith(o, DefaultNamespace, None, None, None, None, ps, rs)
        \/ \E i \in DOMAIN permissions : DeletePermission(permissions[i]._id)
        \/ \E i \in DOMAIN roles : DeleteRole(roles[i]._id)
  \/ results = << >> /\ \E p \in Presentable : nextId > 1 /\ Verify(p)

SpecDangling == Init /\ [][NextDangling]_vars

-----------------------------------------------------------------------------
(* Specification SpecTally: a key is rotated with a grace period, the old and *)
(* the new key are verified, and the logs are rolled up by hour and by day    *)

\* an instant of the second hour, the start of the third and of the next day
TallyInstants == {HOUR_MS + 1, 2 * HOUR_MS, DAY_MS}

NextTally ==
  \/ nextId = 1 /\ now = 1 /\ \E o \in Owners : Create(o, DefaultNamespace, None, None, None, None)
  \/ \E id \in DOMAIN keys :
        now = 1 /\ keys[id].rotationGraceEnd = None /\ Rotate(id, Some(1))
  \/ Len(results) < MaxKeys /\ \E p \in Presentable : Verify(p)
  \/ Len(rollupRuns) < MaxKeys /\ RollupAnalytics
  \/ dailyRuns = << >> /\ RollupDaily
  \/ \E t \in TallyInstants : Advance(t)

SpecTally == Init /\ [][NextTally]_vars

-----------------------------------------------------------------------------
(* Specification SpecDaily: a key and an unknown one are verified in the      *)
(* first and in the last hour of a day, the hourly and the daily job run in   *)
(* any order, and the logs are purged                                         *)

\* the start of the second hour, an instant of the last hour of the first
\* day, and the start of the next day
DailyInstants == {HOUR_MS, DAY_MS - 1, DAY_MS}

NextDaily ==
  \/ nextId = 1 /\ now = 1 /\ \E o \in Owners :
        Create(o, DefaultNamespace, None, Some(1), None, None)
  \/ Len(results) < MaxKeys /\ \E p \in Presentable : Verify(p)
  \/ Len(rollupRuns) < MaxKeys /\ RollupAnalytics
  \/ Len(dailyRuns) < MaxKeys /\ RollupDaily
  \/ neverPurged /\ now >= DAY_MS /\ PurgeVerificationLogs(DAY_MS)
  \/ \E t \in DailyInstants : Advance(t)

SpecDaily == Init /\ [][NextDaily]_vars

-----------------------------------------------------------------------------
(* Specification SpecHourly: the scheduler runs rollupAnalytics once in every *)
(* clock hour while a key and an unknown one are verified and the logs are    *)
(* purged                                                                     *)

\* the last instant of the clock: the end of the third hour
HourlyEnd == 3 * HOUR_MS - 1

\* the job has run in the current clock hour
ranThisHour == \E i \in DOMAIN rollupRuns : hourStart(rollupRuns[i]) = hourStart(now)

\* crons.ts "rollup analytics", every hour
HourlyJob == ~ranThisHour /\ RollupAnalytics

\* the clock leaves an hour only after the job of the hour
TickHourly ==
  /\ now < HourlyEnd
  /\ hourStart(now + 1) # hourStart(now) => ranThisHour
  /\ Advance(now + 1)

NextHourly ==
  \/ nextId = 1 /\ now = 1 /\ \E o \in Owners :
        Create(o, DefaultNamespace, None, Some(1), None, None)
  \/ /\ Len(results) < MaxKeys
     /\ nextId > 1
     /\ now < hourStart(HourlyEnd)
     /\ \E p \in Presentable : Verify(p)
  \/ HourlyJob
  \/ neverPurged /\ PurgeVerificationLogs(now)
  \/ TickHourly

SpecHourly == Init /\ [][NextHourly]_vars /\ WF_vars(HourlyJob) /\ WF_vars(TickHourly)

----------------------------------------------------------------------------
(* Properties of verify *)

\* a verify call completes in this step
VerifyStep == Len(results') = Len(results) + 1

\* the call that completed in a VerifyStep
lastCall == results'[Len(results')]

\* the key document a verify call of plaintext p finds, before the step (0: none)
foundKey(p) == keyByHash(keys, hashKey(p))

\* The rule of the validity state machine that a key document matches first,
\* as documented: an optional field counts as soon as it is set
firstMatchingRule(k, t) ==
  IF k.revokedAt # None THEN "REVOKED"
  ELSE IF ~k.enabled THEN "DISABLED"
  ELSE IF k.expires # None /\ k.expires[1] < t THEN "EXPIRED"
  ELSE IF k.rotationGraceEnd # None /\ k.rotationGraceEnd[1] < t
       THEN "ROTATION_GRACE_EXPIRED"
  ELSE "OK"

\* C1: verify of an existing key returns the code of the first matching rule in
\* the order REVOKED, DISABLED, EXPIRED (expires set and expires < now),
\* ROTATION_GRACE_EXPIRED.
C1_FirstMatchingRule ==
  [][VerifyStep /\ foundKey(lastCall.key) # 0
       /\ firstMatchingRule(keys[foundKey(lastCall.key)], now) # "OK"
     => lastCall.ret.code = firstMatchingRule(keys[foundKey(lastCall.key)], now)]_vars

\* C1, for the keys whose expires is not 0: the order holds
C1_FirstMatchingRuleNonzeroExpires ==
  [][VerifyStep /\ foundKey(lastCall.key) # 0
       /\ keys[foundKey(lastCall.key)].expires # Some(0)
       /\ firstMatchingRule(keys[foundKey(lastCall.key)], now) # "OK"
     => lastCall.ret.code = firstMatchingRule(keys[foundKey(lastCall.key)], now)]_vars

\* C2: every completed verify call inserted exactly one verification log entry,
\* with the code and the success flag it returned; so there are as many log
\* entries as completed verify calls.
C2_OneLogPerVerify ==
  /\ Len(logs) = Len(results)
  /\ \A i \in 1..Len(results) :
        i <= Len(logs) =>
          /\ logs[i].code = results[i].ret.code
          /\ logs[i].success = results[i].ret.valid
          /\ logs[i].keyHash = hashKey(results[i].key)

\* a VALID verification and a rejected one (RATE_LIMITED) have completed
C2_Witness ==
  /\ \E i \in 1..Len(results) : results[i].ret.code = "VALID"
  /\ \E i \in 1..Len(results) : results[i].ret.code = "RATE_LIMITED"
  /\ Len(logs) >= 2

\* the completed verify calls that presented the plaintext of key document id
callsOf(id) == SelectSeq(results, LAMBDA c : c.key = id)

\* key document id was made by create and no update has touched it
neverUpdated(id) ==
  /\ id \in DOMAIN created
  /\ \A i \in 1..Len(audit) :
        audit[i].action = "key.updated" => audit[i].targetKeyHash # Some(hashKey(id))

\* C3: a key created with remaining = n >= 0, without refill or rate limit and
\* never updated, has its first n verifications VALID, reporting remaining
\* n-1, ..., 0 in that order, and every later one USAGE_EXCEEDED with remaining 0.
C3_CreditsCountDown ==
  \A id \in DOMAIN created :
    /\ neverUpdated(id)
    /\ created[id].remaining # None /\ created[id].remaining[1] >= 0
    /\ created[id].refill = None /\ created[id].ratelimit = None
    /\ created[id].expires = None
    => LET n == created[id].remaining[1]
           calls == callsOf(id)
       IN \A i \in 1..Len(calls) :
             IF i <= n
             THEN calls[i].ret.code = "VALID" /\ calls[i].ret.remaining = Some(n - i)
             ELSE calls[i].ret.code = "USAGE_EXCEEDED" /\ calls[i].ret.remaining = Some(0)

\* a key created with remaining = 2 was verified three times, never updated
C3_Witness ==
  \E id \in DOMAIN created :
    /\ neverUpdated(id)
    /\ created[id].remaining = Some(2)
    /\ Len(callsOf(id)) = 3
    /\ callsOf(id)[3].ret.code = "USAGE_EXCEEDED"

\* C4: after a verify call the verified key's stored remaining, when present,
\* is >= 0, whatever create, update, rotate, refill and verify calls preceded.
C4_RemainingNeverNegative ==
  [][VerifyStep /\ foundKey(lastCall.key) # 0
       /\ keys'[foundKey(lastCall.key)].remaining # None
     => keys'[foundKey(lastCall.key)].remaining[1] >= 0]_vars

\* C4, second half: verify never lowers a stored remaining that is <= 0
C4_NoDecrementAtZero ==
  [][VerifyStep /\ foundKey(lastCall.key) # 0
       /\ keys[foundKey(lastCall.key)].remaining # None
       /\ keys[foundKey(lastCall.key)].remaining[1] <= 0
     => keys'[foundKey(lastCall.key)].remaining[1]
          >= keys[foundKey(lastCall.key)].remaining[1]]_vars

\* the number of elements of a sequence that satisfy Test
countSeq(seq, Test(_)) == Len(SelectSeq(seq, Test))

min(a, b) == IF a <= b THEN a ELSE b

\* the statement of C5 for key document id, created with remaining = n
creditsSerial(id) ==
  LET n == created[id].remaining[1]
      calls == callsOf(id)
      valid == SelectSeq(calls, LAMBDA c : c.ret.code = "VALID")
  IN /\ Len(valid) = min(n, Len(calls))
     /\ keys[id].remaining = Some(n - min(n, Len(calls)))
     /\ \A i, j \in 1..Len(valid) :
           i # j => valid[i].ret.remaining # valid[j].ret.remaining
     /\ Len(logs) = Len(results)

\* C5 as claimed: for a key with remaining = n, no refill and no update, the
\* completed ones of any concurrently submitted verify transactions give
\* min(n, k) VALID outcomes, leave remaining at n - min(n, k), report pairwise
\* different remaining values and log once each.
C5_ConcurrentCredits ==
  \A id \in DOMAIN created :
    /\ id \in DOMAIN keys
    /\ neverUpdated(id)
    /\ created[id].remaining # None /\ created[id].remaining[1] >= 0
    /\ created[id].refill = None
    => creditsSerial(id)

\* C5 as amended: the same, for a key that no rate limit applies to
C5_ConcurrentCreditsNoRateLimit ==
  \A id \in DOMAIN created :
    /\ id \in DOMAIN keys
    /\ neverUpdated(id)
    /\ created[id].remaining # None /\ created[id].remaining[1] >= 0
    /\ created[id].refill = None
    /\ created[id].ratelimit = None
    => creditsSerial(id)

\* two verify transactions of a key with one credit and no rate limit have
\* committed, one of them after a conflict and a second run
C5_Witness ==
  \E id \in DOMAIN created :
    /\ created[id].remaining = Some(1)
    /\ created[id].ratelimit = None
    /\ Len(callsOf(id)) = 2
    /\ \E i \in 1..Len(txns) :
          txns[i].op = "verify" /\ txns[i].key = id
          /\ txns[i].status = "done" /\ txns[i].runs >= 2

\* the calls that consumed a slot of bucket b in its current window
allowedInWindow(b) ==
  countSeq(results, LAMBDA c : /\ hashKey(c.key) = b.keyOrOwnerId
                               /\ c.ret.code = "VALID"
                               /\ c.at >= b.windowStart)
  + countSeq(rlResults, LAMBDA c : /\ c.identifier = b.keyOrOwnerId
                                   /\ c.namespace = b.namespace
                                   /\ c.success
                                   /\ c.at >= b.windowStart)

\* C6: under a constant positive limit and duration, the calls allowed on one
\* bucket in one window (one windowStart), by verify or checkRateLimit
\* transactions in any interleaving, are never more than the limit; each
\* allowed call is counted once.
C6_WindowNeverOverLimit ==
  \A i \in 1..Len(buckets) :
    /\ allowedInWindow(buckets[i]) <= buckets[i].limit
    /\ allowedInWindow(buckets[i]) = buckets[i].count

\* a bucket of limit 2 is full, a call was rejected in its window, and one of
\* the transactions on it committed after a conflict
C6_Witness ==
  /\ \E i \in 1..Len(buckets) : buckets[i].limit = 2 /\ buckets[i].count = 2
  /\ \/ \E j \in 1..Len(rlResults) : ~rlResults[j].success
     \/ \E j \in 1..Len(results) : results[j].ret.code = "RATE_LIMITED"
  /\ \E i \in 1..Len(txns) : txns[i].status = "done" /\ txns[i].runs >= 2

\* no override was ever set for key document id
neverOverridden(id) ==
  \A i \in 1..Len(audit) :
    audit[i].action = "ratelimit.override_set" => audit[i].targetKeyHash # Some(hashKey(id))

\* the verify calls of key document id since the start of the current window
\* of its bucket
windowCalls(id) ==
  LET b == firstByKeyNamespace(buckets, hashKey(id), keys[id].namespace)
  IN IF b = 0 THEN << >>
     ELSE SelectSeq(callsOf(id), LAMBDA c : c.at >= buckets[b].windowStart)

\* C7: a key with ratelimit {limit: L, duration: D}, unlimited credits and
\* never an override has, in every window, its first L verify calls VALID and
\* every later call of the window RATE_LIMITED with ratelimit.remaining = 0
\* and ratelimit.reset = windowStart + D.
C7_LimitPerWindow ==
  \A id \in DOMAIN created :
    /\ id \in DOMAIN keys
    /\ neverUpdated(id) /\ neverOverridden(id)
    /\ created[id].ratelimit # None
    /\ created[id].remaining = None /\ created[id].expires = None
    => LET L == created[id].ratelimit[1].limit
           D == created[id].ratelimit[1].duration
           b == firstByKeyNamespace(buckets, hashKey(id), keys[id].namespace)
           calls == windowCalls(id)
       IN \A k \in 1..Len(calls) :
             IF k <= L
             THEN calls[k].ret.code = "VALID"
             ELSE /\ calls[k].ret.code = "RATE_LIMITED"
                  /\ calls[k].ret.ratelimit =
                       Some([remaining |-> 0, reset |-> buckets[b].windowStart + D])

\* a key of limit 2, never overridden, was verified three times in one window,
\* the third time after the window had started
C7_Witness ==
  \E id \in DOMAIN created :
    /\ neverOverridden(id)
    /\ created[id].ratelimit # None /\ created[id].ratelimit[1].limit = 2
    /\ Len(windowCalls(id)) = 3
    /\ windowCalls(id)[3].ret.code = "RATE_LIMITED"
    /\ windowCalls(id)[3].at > windowCalls(id)[1].at

\* the checkRateLimit calls on bucket b since the start of its current window
checksOf(b) ==
  SelectSeq(rlResults, LAMBDA c : /\ c.identifier = b.keyOrOwnerId
                                  /\ c.namespace = b.namespace
                                  /\ c.at >= b.windowStart)

\* C8: when the calls on one (identifier, namespace) in one window all pass
\* the same limit L >= 1 and the same duration, the k-th of them is allowed
\* with remaining = L - k for k <= L and rejected with remaining = 0 for
\* k > L; the bucket keeps the windowStart of the first call and a count of
\* min(calls, L), so a rejected call consumes nothing.
C8_CheckAndConsume ==
  \A i \in 1..Len(buckets) :
    LET b == buckets[i]
        calls == checksOf(b)
        L == calls[1].limit
    IN (\A k \in 1..Len(calls) : calls[k].limit = L /\ calls[k].duration = calls[1].duration)
       => /\ \A k \in 1..Len(calls) :
                IF k <= L
                THEN calls[k].success /\ calls[k].remaining = L - k
                ELSE ~calls[k].success /\ calls[k].remaining = 0
          /\ b.count = min(Len(calls), L)
          /\ b.windowStart = calls[1].at

\* three calls with limit 2 on one bucket in one window: the third is rejected
C8_Witness ==
  \E i \in 1..Len(buckets) :
    LET calls == checksOf(buckets[i])
    IN /\ Len(calls) = 3
       /\ \A k \in 1..3 : calls[k].limit = 2
       /\ ~calls[3].success
       /\ buckets[i].count = 2

\* C9: a verify that finds a key whose owner has a shared limit for the key's
\* namespace and that passes the validity, credit and per-key limit checks
\* takes one slot of the owner's bucket and is VALID while the bucket has room
\* in its window; once the bucket is full it is RATE_LIMITED, the bucket and
\* the key's credits staying as they were.
C9_OwnerLimitShared ==
  [][VerifyStep /\ foundKey(lastCall.key) # 0
     => LET id == foundKey(lastCall.key)
            k == keys[id]
            o == firstByKeyNamespace(overrides, k.ownerId, k.namespace)
            passesKeyChecks ==
              /\ checkKeyValidity(k, now) = "OK"
              /\ LET r == applyRefillIfNeeded(k, now).remaining
                 IN r = None \/ r[1] > 0
              /\ \/ k.ratelimit = None
                 \/ keyRateLimitStep([keys |-> keys, buckets |-> buckets,
                                      overrides |-> overrides], k, k.hash, now).success
            ob == firstByKeyNamespace(buckets, k.ownerId, k.namespace)
            live == ob # 0 /\ ~(buckets[ob].windowStart < now - overrides[o].duration)
            used == IF live THEN buckets[ob].count ELSE 0
            ob2 == firstByKeyNamespace(buckets', k.ownerId, k.namespace)
        IN o # 0 /\ passesKeyChecks
           => IF used < overrides[o].limit
              THEN /\ lastCall.ret.code = "VALID"
                   /\ ob2 # 0 /\ buckets'[ob2].count = used + 1
              ELSE /\ lastCall.ret.code = "RATE_LIMITED"
                   /\ buckets'[ob2] = buckets[ob]
                   /\ keys'[id].remaining = k.remaining]_vars

\* C10: a verify that reaches the per-key limit of a key with a rate-limit
\* policy applies the limit and duration of the override of (key digest, key
\* namespace) when there is one, else those of the key: it is VALID while the
\* bucket's count in the window that duration gives is below that limit, and
\* RATE_LIMITED with reset = windowStart + that duration otherwise.
C10_OverrideBeforeOwnPolicy ==
  [][VerifyStep /\ foundKey(lastCall.key) # 0
     => LET id == foundKey(lastCall.key)
            k == keys[id]
            o == firstByKeyNamespace(overrides, k.hash, k.namespace)
            eff == IF o # 0
                   THEN [limit |-> overrides[o].limit, duration |-> overrides[o].duration]
                   ELSE k.ratelimit[1]
            b == firstByKeyNamespace(buckets, k.hash, k.namespace)
            live == b # 0 /\ ~(buckets[b].windowStart < now - eff.duration)
            used == IF live THEN buckets[b].count ELSE 0
        IN /\ k.ratelimit # None
           /\ checkKeyValidity(k, now) = "OK"
           /\ LET r == applyRefillIfNeeded(k, now).remaining
              IN r = None \/ r[1] > 0
           => IF used < eff.limit
              THEN lastCall.ret.code = "VALID"
              ELSE /\ lastCall.ret.code = "RATE_LIMITED"
                   /\ lastCall.ret.ratelimit =
                        Some([remaining |-> 0,
                              reset |-> buckets[b].windowStart + eff.duration])]_vars

\* a key of limit 1 was verified at one instant three times: VALID, then VALID
\* under an override just set, then RATE_LIMITED once the override was deleted
C10_Witness ==
  \E id \in DOMAIN created :
    /\ created[id].ratelimit # None /\ created[id].ratelimit[1].limit = 1
    /\ Len(callsOf(id)) = 3
    /\ callsOf(id)[1].ret.code = "VALID"
    /\ callsOf(id)[2].ret.code = "VALID"
    /\ callsOf(id)[3].ret.code = "RATE_LIMITED"
    /\ callsOf(id)[1].at = callsOf(id)[3].at
    /\ Len(audit) = 3
    /\ audit[2].action = "ratelimit.override_set"
    /\ audit[3].action = "ratelimit.override_deleted"

\* the span of a refill interval as documented, in hours
intervalSpan(interval) ==
  CASE interval = "hourly"  -> 1
    [] interval = "daily"   -> 24
    [] interval = "weekly"  -> 7 * 24
    [] interval = "monthly" -> 30 * 24

\* the refill step of a verify of key document k at this instant, as C11
\* states it, seen in the document the step leaves and the value returned:
\* a due refill stores lastRefill = now and counts the credits from amount
refillStepAsStated(id) ==
  LET k == keys[id]
      r == k.refill[1]
      due == now - r.lastRefill >= intervalSpan(r.interval)
      before == IF due THEN r.amount ELSE k.remaining[1]
      spent == IF lastCall.ret.code = "VALID" THEN 1 ELSE 0
  IN /\ keys'[id].refill[1].lastRefill = (IF due THEN now ELSE r.lastRefill)
     /\ keys'[id].refill[1].amount = r.amount
     /\ keys'[id].remaining = Some(before - spent)
     /\ lastCall.ret.code = "USAGE_EXCEEDED" <=> before <= 0
     /\ lastCall.ret.code = "VALID" => lastCall.ret.remaining = Some(before - 1)

\* an exhausted key whose refill is due and gives at least one credit
refillDueWhenExhausted(id) ==
  /\ keys[id].remaining = Some(0)
  /\ keys[id].refill[1].amount >= 1
  /\ now - keys[id].refill[1].lastRefill >= intervalSpan(keys[id].refill[1].interval)

\* a verify of a key with a refill policy and a remaining counter that passes
\* the validity checks completes in this step
RefillVerifyStep ==
  /\ VerifyStep
  /\ foundKey(lastCall.key) # 0
  /\ checkKeyValidity(keys[foundKey(lastCall.key)], now) = "OK"
  /\ keys[foundKey(lastCall.key)].refill # None
  /\ keys[foundKey(lastCall.key)].remaining # None
  /\ keys[foundKey(lastCall.key)].refill[1].interval \in RefillIntervals

\* C11 as claimed: on such a verify the refill step resets remaining to amount
\* and sets lastRefill = now when now - lastRefill >= the interval span, before
\* the credit check, and changes nothing otherwise; an exhausted key with
\* amount >= 1 whose interval has elapsed is VALID with remaining = amount - 1.
C11_RefillBeforeCreditCheck ==
  [][RefillVerifyStep
     => LET id == foundKey(lastCall.key)
        IN /\ refillStepAsStated(id)
           /\ refillDueWhenExhausted(id)
              => /\ lastCall.ret.code = "VALID"
                 /\ lastCall.ret.remaining = Some(keys[id].refill[1].amount - 1)]_vars

\* C11 as amended: the same, the exhausted key being one without a rate-limit
\* policy
C11_RefillBeforeCreditCheckNoRateLimit ==
  [][RefillVerifyStep
     => LET id == foundKey(lastCall.key)
        IN /\ refillStepAsStated(id)
           /\ refillDueWhenExhausted(id) /\ keys[id].ratelimit = None
              => /\ lastCall.ret.code = "VALID"
                 /\ lastCall.ret.remaining = Some(keys[id].refill[1].amount - 1)]_vars

\* a daily key of amount 2 without rate limit was created exhausted, verified
\* before its interval had elapsed and again more than two intervals later
C11_Witness ==
  \E id \in DOMAIN created :
    /\ created[id].refill # None /\ created[id].refill[1].interval = "daily"
    /\ created[id].refill[1].amount = 2
    /\ created[id].remaining = Some(0) /\ created[id].ratelimit = None
    /\ Len(callsOf(id)) = 2
    /\ callsOf(id)[1].ret.code = "USAGE_EXCEEDED"
    /\ callsOf(id)[2].ret.code = "VALID"
    /\ callsOf(id)[2].ret.remaining = Some(1)
    /\ callsOf(id)[2].at - keys[id].createdAt > 2 * 24
    /\ keys[id].refill[1].lastRefill = callsOf(id)[2].at

\* a revoke of key document id with the soft flag as given is in the audit log
revoked(id, soft) ==
  \E i \in 1..Len(audit) :
    /\ audit[i].action = "key.revoked"
    /\ audit[i].targetKeyHash = Some(hashKey(id))
    /\ audit[i].details.soft = soft

\* a purge has deleted a key
purged ==
  \E i \in 1..Len(audit) :
    audit[i].action = "admin.purge_expired_keys" /\ audit[i].details.count > 0

\* C12 as claimed: once a key has been revoked softly, every verify of it
\* returns REVOKED and getKey returns its record; once it has been revoked
\* hard, every verify of it returns NOT_FOUND and getKey returns null.
C12_RevokedStays ==
  [][VerifyStep
     => LET id == lastCall.key
        IN /\ revoked(id, TRUE)
              => lastCall.ret.code = "REVOKED" /\ getKey(id) # None
           /\ revoked(id, FALSE)
              => lastCall.ret.code = "NOT_FOUND" /\ getKey(id) = None]_vars

\* C12 as amended: the soft half holds until a hard revoke or a purge deletes
\* the record
C12_RevokedStaysUntilDeleted ==
  [][VerifyStep
     => LET id == lastCall.key
        IN /\ revoked(id, TRUE) /\ ~revoked(id, FALSE) /\ ~purged
              => lastCall.ret.code = "REVOKED" /\ getKey(id) # None
           /\ revoked(id, FALSE)
              => lastCall.ret.code = "NOT_FOUND" /\ getKey(id) = None]_vars

\* a key revoked softly and then enabled again by update was verified: REVOKED
C12_Witness ==
  /\ Len(audit) = 3
  /\ audit[2].action = "key.revoked" /\ audit[2].details.soft
  /\ audit[3].action = "key.updated"
  /\ 1 \in DOMAIN keys /\ keys[1].enabled
  /\ Len(results) >= 1
  /\ results[Len(results)].at >= audit[3].timestamp
  /\ results[Len(results)].ret.code = "REVOKED"

\* the entries of the audit log that record a rotation
rotations == {i \in 1..Len(audit) : audit[i].action = "key.rotated"}

\* key document id verified VALID before the instant t
verifiedValidBefore(id, t) ==
  \E j \in 1..Len(results) :
    results[j].key = id /\ results[j].ret.code = "VALID" /\ results[j].at < t

\* what C13 says of the verify completing in this step, given the rotation
\* that audit entry i records
rotationAsStated(i) ==
  LET old == CHOOSE id \in 1..nextId : audit[i].targetKeyHash = Some(hashKey(id))
      new == audit[i].details.newKeyId
      t0 == audit[i].timestamp
      g == audit[i].details.gracePeriodMs
  IN IF g = None
     THEN /\ lastCall.key = old => lastCall.ret.code # "VALID"
          /\ lastCall.key = new => lastCall.ret.code = "VALID"
     ELSE /\ lastCall.key = old /\ now <= t0 + g[1] => lastCall.ret.code = "VALID"
          /\ lastCall.key = old /\ now > t0 + g[1]
             => lastCall.ret.code = "ROTATION_GRACE_EXPIRED"
          /\ lastCall.key = new => lastCall.ret.code = "VALID"

\* the key rotated in audit entry i
rotatedKey(i) == CHOOSE id \in 1..nextId : audit[i].targetKeyHash = Some(hashKey(id))

plainKey(id) ==
  /\ id \in DOMAIN created
  /\ created[id].expires = None /\ created[id].remaining = None
  /\ created[id].refill = None /\ created[id].ratelimit = None

\* audit entry i is the only call of revoke, update or rotate on the key it
\* rotates and on the key it makes
onlyRotation(i) ==
  \A j \in 1..Len(audit) :
    /\ audit[j].action \in {"key.revoked", "key.updated", "key.rotated"}
    /\ audit[j].targetKeyHash \in {audit[i].targetKeyHash, Some(audit[i].details.newKeyHash)}
    => j = i

RotateStep ==
  /\ Len(audit') = Len(audit) + 1
  /\ audit'[Len(audit')].action = "key.rotated"

\* the value a verify of the key made by the rotation of this step returns
\* when it is the next call
verifyOfNewKey ==
  verifyHandler([keys |-> keys', buckets |-> buckets', overrides |-> overrides',
                 permissions |-> permissions', roles |-> roles'],
                audit'[Len(audit')].details.newKeyId, now).result

\* the key rotated in this step, as it was before the step
rotatedBefore ==
  keys[CHOOSE id \in DOMAIN keys : audit'[Len(audit')].targetKeyHash = Some(keys[id].hash)]

\* C14 as claimed: after every rotate that succeeds, a verify of the new key
\* made at once returns VALID, with or without grace period, whatever the state
\* of the old key.
C14_NewKeyValid ==
  [][RotateStep => verifyOfNewKey.code = "VALID"]_vars

\* C14 as amended: the same, when the old key's expires is absent or not in the
\* past, its remaining absent or positive and the amount of its refill, if any,
\* positive
C14_NewKeyValidUnlessExpiredOrExhausted ==
  [][RotateStep
     /\ (rotatedBefore.expires = None \/ rotatedBefore.expires[1] >= now)
     /\ (rotatedBefore.remaining = None \/ rotatedBefore.remaining[1] > 0)
     /\ (rotatedBefore.refill = None \/ rotatedBefore.refill[1].amount > 0)
     => verifyOfNewKey.code = "VALID"]_vars

\* a softly revoked key was rotated and the new key verified VALID at the same
\* instant
C14_Witness ==
  /\ Len(audit) = 3
  /\ audit[2].action = "key.revoked"
  /\ audit[3].action = "key.rotated"
  /\ Len(results) = 1
  /\ results[1].key = audit[3].details.newKeyId
  /\ results[1].at = audit[3].timestamp
  /\ results[1].ret.code = "VALID"

\* the elements of a list
elements(seq) == {seq[i] : i \in DOMAIN seq}

\* the roles of key document k that exist
existingRoles(k) == {r \in elements(k.roleIds) : docById(roles, r) # 0}

\* the direct permissions of key document k and those of its roles that exist
grantedPermissions(k) ==
  elements(k.permissionIds)
    \cup UNION {elements(roles[docById(roles, r)].permissionIds) : r \in existingRoles(k)}

\* C15: a VALID verification of a key with direct permissions P and roles R
\* returns as permissions the list of P and the permissions of every existing
\* role of R, each once, whatever the order of P, R and the roles' lists, and
\* as roles a list that holds every existing role of R.
C15_PermissionsAndRoles ==
  [][VerifyStep /\ lastCall.ret.code = "VALID" =>
       LET k == keys[foundKey(lastCall.key)]
           ret == lastCall.ret
       IN /\ ret.permissions.type = "array"
          /\ \A i, j \in DOMAIN ret.permissions.items :
                ret.permissions.items[i] = ret.permissions.items[j] => i = j
          /\ elements(ret.permissions.items) = grantedPermissions(k)
          /\ existingRoles(k) \subseteq elements(ret.roles)]_vars

\* C16: every result of verify with valid = false carries an empty permissions
\* list and an empty roles list, also for a key that holds permissions and
\* roles; only a VALID result carries more.
C16_FailuresCarryNothing ==
  \A i \in 1..Len(results) :
     ~results[i].ret.valid =>
        /\ results[i].ret.permissions = jsArray(<< >>)
        /\ results[i].ret.roles = << >>

\* a key that holds permissions and roles was verified and refused
C16_Witness ==
  \E i \in 1..Len(results) :
     /\ results[i].ret.code \in {"REVOKED", "USAGE_EXCEEDED", "RATE_LIMITED"}
     /\ results[i].key \in DOMAIN keys
     /\ keys[results[i].key].permissionIds # << >>
     /\ keys[results[i].key].roleIds # << >>
     /\ existingRoles(keys[results[i].key]) # {}

\* the codes of the lookup and of the validity rules
ValidityCodes == {"NOT_FOUND", "REVOKED", "DISABLED", "EXPIRED", "ROTATION_GRACE_EXPIRED"}

\* C17: a verify that ends in NOT_FOUND, REVOKED, DISABLED, EXPIRED or
\* ROTATION_GRACE_EXPIRED appends its one log entry and changes nothing else:
\* no key document (remaining, refill), no bucket, no other record.
C17_RefusedVerifyOnlyLogs ==
  [][VerifyStep /\ lastCall.ret.code \in ValidityCodes =>
       /\ Len(logs') = Len(logs) + 1
       /\ SubSeq(logs', 1, Len(logs)) = logs
       /\ UNCHANGED <<keys, nextId, buckets, overrides, audit, rbacVars>>]_vars

\* a key whose refill was due was verified and refused by a validity rule
C17_Witness ==
  \E i \in 1..Len(results) :
     /\ results[i].ret.code \in ValidityCodes \ {"NOT_FOUND"}
     /\ results[i].key \in DOMAIN keys
     /\ LET k == keys[results[i].key]
        IN /\ k.refill # None
           /\ k.remaining # None
           /\ results[i].at - k.refill[1].lastRefill >= REFILL_INTERVALS(k.refill[1].interval)

\* a mutation throws in this step; thrownError is what it throws
ThrowStep == Len(thrown') = Len(thrown) + 1

thrownError == thrown'[Len(thrown')]

\* the step leaves every table as it is
tablesUnchanged ==
  UNCHANGED <<keys, nextId, buckets, overrides, logs, audit, rbacVars>>

\* the step is a call of revoke, update, rotate, assignRoles or
\* assignPermissions with an id that names no key
unknownKeyCall ==
  \E id \in KeyIds \ DOMAIN keys :
     \/ \E soft \in {None, Some(FALSE)} : Revoke(id, soft)
     \/ \E patch \in ErrPatches : Update(id, patch)
     \/ \E g \in {None, Some(1)} : Rotate(id, g)
     \/ \E rs \in RoleIdLists : AssignRoles(id, rs)
     \/ \E ps \in PermissionIdLists : AssignPermissions(id, ps)

\* C18 as claimed: revoke, update, rotate, assignRoles, assignPermissions and
\* setRateLimitOverride called with an id that names no key fail with the
\* not-found error and leave every table, the logs included, unchanged.
C18_UnknownKeyNotFound ==
  [][(\/ unknownKeyCall
      \/ \E id \in KeyIds \ DOMAIN keys, l \in ErrLimits, d \in ErrDurations :
            SetRateLimitOverride(id, l, d))
     => /\ ThrowStep
        /\ thrownError.message = "Key not found"
        /\ tablesUnchanged]_vars

\* C18 as amended: the same, for setRateLimitOverride when its limit and its
\* duration are positive
C18_UnknownKeyNotFoundPositive ==
  [][(\/ unknownKeyCall
      \/ \E id \in KeyIds \ DOMAIN keys, l \in ErrLimits, d \in ErrDurations :
            l > 0 /\ d > 0 /\ SetRateLimitOverride(id, l, d))
     => /\ ThrowStep
        /\ thrownError.message = "Key not found"
        /\ tablesUnchanged]_vars

\* MaxOps calls have failed for ids that name no key, one of setRateLimitOverride
\* and one of assignRoles among them
C18_Witness ==
  /\ Len(thrown) = MaxOps
  /\ \A i \in 1..Len(thrown) : thrown[i].message = "Key not found"
  /\ \E i \in 1..Len(thrown) : thrown[i].mutation = "setRateLimitOverride"
  /\ \E i \in 1..Len(thrown) : thrown[i].mutation = "assignRoles"

\* C19: checkRateLimit and setRateLimitOverride called with a limit <= 0 or a
\* duration <= 0 fail with an error and create or modify no bucket, no
\* override and no audit entry.
C19_NonPositiveRejected ==
  [][(\E l \in ErrLimits, d \in ErrDurations :
        /\ l <= 0 \/ d <= 0
        /\ \/ CheckRateLimit(hashKey(1), DefaultNamespace, l, d)
           \/ \E id \in KeyIds : SetRateLimitOverride(id, l, d))
     => /\ ThrowStep
        /\ thrownError.message \in {"limit must be positive", "duration must be positive"}
        /\ tablesUnchanged]_vars

\* checkRateLimit has failed for its limit, and setRateLimitOverride for its
\* duration on a key that exists
C19_Witness ==
  /\ DOMAIN keys # {}
  /\ \E i \in 1..Len(thrown) :
        thrown[i] = [mutation |-> "checkRateLimit", message |-> "limit must be positive"]
  /\ \E i \in 1..Len(thrown) :
        thrown[i] = [mutation |-> "setRateLimitOverride",
                     message |-> "duration must be positive"]
  /\ buckets = << >>
  /\ overrides = << >>

\* no two documents of the table share a name
namesUnique(table) ==
  \A i, j \in 1..Len(table) : table[i].name = table[j].name => i = j

\* the step is a createPermission or createRole that ends, of a name that a
\* document holds
nameInUseCall ==
  \/ \E i \in 1..Len(txns) :
        /\ txns[i].op = "createPermission"
        /\ firstByName(permissions, txns[i].args.name) # 0
        /\ CommitCreatePermission(i)
  \/ \E i \in 1..Len(txns) :
        /\ txns[i].op = "createRole"
        /\ firstByName(roles, txns[i].args.name) # 0
        /\ CommitCreateRole(i)

KeyHashes == {hashKey(p) : p \in Plaintexts}

\* the logs of the table of a key hash, of the hour starting at H and of the codes
logsOf(table, keyHash, H, codes) ==
  {i \in DOMAIN table : /\ table[i].keyHash = keyHash
                        /\ H <= table[i].timestamp
                        /\ table[i].timestamp < H + HOUR_MS
                        /\ table[i].code \in codes}

\* the outcome codes of the logs
LogCodes ==
  {"VALID", "RATE_LIMITED", "USAGE_EXCEEDED", "EXPIRED", "REVOKED", "DISABLED", "NOT_FOUND"}

\* the counts of the raw logs of a key hash and an hour
rawCounts(table, keyHash, H) ==
  [total |-> Cardinality(logsOf(table, keyHash, H, LogCodes)),
   valid |-> Cardinality(logsOf(table, keyHash, H, {"VALID"})),
   rateLimited |-> Cardinality(logsOf(table, keyHash, H, {"RATE_LIMITED"})),
   usageExceeded |-> Cardinality(logsOf(table, keyHash, H, {"USAGE_EXCEEDED"})),
   expired |-> Cardinality(logsOf(table, keyHash, H, {"EXPIRED"})),
   revoked |-> Cardinality(logsOf(table, keyHash, H, {"REVOKED"})),
   disabled |-> Cardinality(logsOf(table, keyHash, H, {"DISABLED"})),
   notFound |-> Cardinality(logsOf(table, keyHash, H, {"NOT_FOUND"}))]

\* the counts of a rollup
rollupCounts(r) == [f \in DOMAIN emptyStats |-> r[f]]

\* the hourly rollups of a key hash and an hour
hourlyRollups(table, keyHash, H) ==
  {i \in DOMAIN table : /\ table[i].keyHash = keyHash
                        /\ table[i].period = "hour"
                        /\ table[i].timestamp = H}

\* a step of a rollupAnalytics run
RollupStep == rollupRuns' # rollupRuns

\* the hour a run at the instant processes
processedHour(t) == hourStart(t) - HOUR_MS

\* an earlier run has processed the hour
alreadyProcessed(H) == \E i \in DOMAIN rollupRuns : processedHour(rollupRuns[i]) = H

\* every log written in the hour (one for each verify call) is still in the table
unpurged(lg, H) ==
  Cardinality({i \in DOMAIN results : hourStart(results[i].at) = H})
    = Cardinality({i \in DOMAIN lg : hourStart(lg[i].timestamp) = H})

\* after the run, the rollups of the hours in Hs count the raw logs, the hour
\* the run processed has one rollup for each key hash with a log, and a run
\* over an hour already processed changes no rollup
rollupAsStated(Hs) ==
  LET H == processedHour(now)
  IN /\ \A i \in DOMAIN analyticsRollups' :
          analyticsRollups'[i].timestamp \in Hs =>
            rollupCounts(analyticsRollups'[i])
              = rawCounts(logs', analyticsRollups'[i].keyHash, analyticsRollups'[i].timestamp)
     /\ H \in Hs =>
          /\ \A h \in KeyHashes :
               /\ Cardinality(hourlyRollups(analyticsRollups', h, H)) <= 1
               /\ logsOf(logs', h, H, LogCodes) # {} => hourlyRollups(analyticsRollups', h, H) # {}
          /\ alreadyProcessed(H) => analyticsRollups' = analyticsRollups

Days == {0, DAY_MS}

\* the eight outcome codes of verify
OutcomeCodes == LogCodes \cup {"ROTATION_GRACE_EXPIRED"}

\* the logs of the table of a key hash, of the day starting at D and of the codes
dayLogs(table, keyHash, D, codes) ==
  {i \in DOMAIN table : /\ table[i].keyHash = keyHash
                        /\ D <= table[i].timestamp
                        /\ table[i].timestamp < D + DAY_MS
                        /\ table[i].code \in codes}

\* the counts of the raw logs of a key hash and a day
rawDayCounts(table, keyHash, D) ==
  [total |-> Cardinality(dayLogs(table, keyHash, D, OutcomeCodes)),
   valid |-> Cardinality(dayLogs(table, keyHash, D, {"VALID"})),
   rateLimited |-> Cardinality(dayLogs(table, keyHash, D, {"RATE_LIMITED"})),
   usageExceeded |-> Cardinality(dayLogs(table, keyHash, D, {"USAGE_EXCEEDED"})),
   expired |-> Cardinality(dayLogs(table, keyHash, D, {"EXPIRED"})),
   revoked |-> Cardinality(dayLogs(table, keyHash, D, {"REVOKED"})),
   disabled |-> Cardinality(dayLogs(table, keyHash, D, {"DISABLED"})),
   notFound |-> Cardinality(dayLogs(table, keyHash, D, {"NOT_FOUND"}))]

\* the sum of the counts of a sequence of rollups
RECURSIVE sumCounts(_)
sumCounts(rollups) ==
  IF rollups = << >> THEN emptyStats
  ELSE addStats(sumCounts(SubSeq(rollups, 1, Len(rollups) - 1)), rollups[Len(rollups)])

\* the sum of the hourly rollups of a key hash with start in [D, D + DAY_MS)
hourlySum(keyHash, D) ==
  sumCounts(SelectSeq(analyticsRollups, LAMBDA r : /\ r.keyHash = keyHash
                                                   /\ r.period = "hour"
                                                   /\ D <= r.timestamp
                                                   /\ r.timestamp < D + DAY_MS))

\* the daily rollups of a key hash and a day
dailyRollups(keyHash, D) ==
  {i \in DOMAIN analyticsRollups : /\ analyticsRollups[i].keyHash = keyHash
                                   /\ analyticsRollups[i].period = "day"
                                   /\ analyticsRollups[i].timestamp = D}

\* every log written in the day (one for each verify call) is still in the table
unpurgedDay(D) ==
  Cardinality({i \in DOMAIN results : dayStart(results[i].at) = D})
    = Cardinality({i \in DOMAIN logs : dayStart(logs[i].timestamp) = D})

\* the hours of the day in which the key hash has logs
hoursWithLogs(keyHash, D) ==
  {hourStart(logs[i].timestamp) : i \in dayLogs(logs, keyHash, D, OutcomeCodes)}

\* the daily rollup of the key hash and the day counts the hourly rollups of
\* the day and the raw logs of the day
dailyMatches(keyHash, D) ==
  IF dayLogs(logs, keyHash, D, OutcomeCodes) = {} THEN dailyRollups(keyHash, D) = {}
  ELSE /\ Cardinality(dailyRollups(keyHash, D)) = 1
       /\ \A i \in dailyRollups(keyHash, D) :
            /\ rollupCounts(analyticsRollups[i]) = hourlySum(keyHash, D)
            /\ rollupCounts(analyticsRollups[i]) = rawDayCounts(logs, keyHash, D)

\* the jobs have run for the period after the day: rollupAnalytics for every
\* hour of the day in which the key hash has logs, rollupDaily for the day
jobsHaveRun(keyHash, D) ==
  /\ \E i \in DOMAIN dailyRuns : dayStart(dailyRuns[i]) - DAY_MS = D
  /\ \A H \in hoursWithLogs(keyHash, D) : alreadyProcessed(H)

\* the same, with a run of rollupDaily that wrote after the runs of
\* rollupAnalytics for these hours had written (the audit log keeps the order)
jobsHaveRunInOrder(keyHash, D) ==
  \E i \in DOMAIN audit :
    /\ audit[i].action = "cron.rollup_daily"
    /\ dayStart(audit[i].timestamp) - DAY_MS = D
    /\ \A H \in hoursWithLogs(keyHash, D) :
         \E j \in 1..(i - 1) : /\ audit[j].action = "cron.rollup_analytics"
                               /\ processedHour(audit[j].timestamp) = H

\* C32 as stated: for every key and every day whose logs have not been cleaned
\* up, once the hourly and the daily job have run for the period after the
\* day, in whatever order, the daily rollup of the key and the day counts the
\* hourly rollups of the day and the raw logs of the day
C32_DailyMatchesAnyOrder ==
  \A h \in KeyHashes, D \in Days :
    unpurgedDay(D) /\ jobsHaveRun(h, D) => dailyMatches(h, D)

\* C32: the same once rollupDaily has run for the day after rollupAnalytics ran
\* for every hour of the day in which the key has logs
C32_DailyMatchesAfterHourly ==
  \A h \in KeyHashes, D \in Days :
    unpurgedDay(D) /\ jobsHaveRunInOrder(h, D) => dailyMatches(h, D)

\* a key with logs in the first and in the last hour of the day, both hours
\* rolled up before rollupDaily ran twice
C32_Witness ==
  /\ Len(dailyRuns) = 2
  /\ unpurgedDay(0)
  /\ jobsHaveRunInOrder(hashKey(1), 0)
  /\ Cardinality(hoursWithLogs(hashKey(1), 0)) = 2
  /\ \E i \in dailyRollups(hashKey(1), 0) : analyticsRollups[i].total = 2

\* the log of the k-th verify call was deleted by a purge before a run of
\* rollupAnalytics for its hour had written (the audit log keeps the order)
purgedLog(k) ==
  \E i \in DOMAIN audit :
    /\ audit[i].action = "admin.purge_verification_logs"
    /\ audit[i].details.olderThan > results[k].at
    /\ \A j \in 1..(i - 1) :
         ~(/\ audit[j].action = "cron.rollup_analytics"
           /\ processedHour(audit[j].timestamp) = hourStart(results[k].at))

\* the verify calls of the set whose log belongs to the hourly rollup of the
\* log of the k-th call: same key digest, same clock hour
sameBucket(k, calls) ==
  {j \in calls : /\ hashKey(results[j].key) = hashKey(results[k].key)
                 /\ hourStart(results[j].at) = hourStart(results[k].at)}

\* there is exactly one hourly rollup of the key digest and the hour of the
\* log of the k-th call, and its total is the number of the calls
countedOnce(k, calls) ==
  LET rollups == hourlyRollups(analyticsRollups, hashKey(results[k].key),
                               hourStart(results[k].at))
  IN /\ Cardinality(rollups) = 1
     /\ \A i \in rollups : analyticsRollups[i].total = Cardinality(sameBucket(k, calls))

\* C33 as stated: under a scheduler that runs rollupAnalytics once in every
\* clock hour, the log of every verify call is eventually counted, once, in
\* the hourly rollup of its key digest for the hour of its timestamp, and
\* stays so
C33_EveryLogCounted ==
  <>[](\A k \in DOMAIN results : countedOnce(k, DOMAIN results))

\* C33: the same for the logs that are still in the table when the job runs
\* for their hour
C33_EveryLogCountedUnlessPurged ==
  <>[](\A k \in DOMAIN results :
         \/ purgedLog(k)
         \/ countedOnce(k, {j \in DOMAIN results : ~purgedLog(j)}))

\* two verify calls in one hour, the log of the first purged before the job
\* of the next hour counted the second
C33_Witness ==
  /\ Len(results) = 2
  /\ hourStart(results[1].at) = hourStart(results[2].at)
  /\ results[1].key = results[2].key
  /\ purgedLog(1)
  /\ ~purgedLog(2)
  /\ countedOnce(2, {2})

\* the text occurs in the string
contains(string, text) ==
  \E i \in 0..(Len(string) - Len(text)) : SubSeq(string, i + 1, i + Len(text)) = text

\* the strings that the documents of the tables hold: the prefix and the hint
\* of the keys (the logs and the audit entries hold digests, ids and numbers)
storedStrings == UNION {{keys[id].prefix, keys[id].hint} : id \in DOMAIN keys}

\* C22: after create or rotate, no stored record (key, verification log,
\* audit log) contains the plaintext key generated, whatever the prefix and
\* keyBytes: only its digest and a redacted hint are stored
C22_PlaintextNeverStored ==
  \A id \in DOMAIN issued : \A string \in storedStrings : ~contains(string, issued[id])

\* a step of a checkRateLimit call that returns
CheckStep == rlResults' # rlResults

\* the requests counted in the bucket of an identifier and a namespace
countedIn(bs, identifier, namespace) ==
  LET b == firstByKeyNamespace(bs, identifier, namespace)
  IN IF b = 0 THEN 0 ELSE bs[b].count

\* C23: checkRateLimit reports the status of (identifier, namespace) without
\* consuming a request: a call leaves the count of the bucket as it was, and so
\* does not lower the number of the later calls that the window allows
C23_CheckConsumesNothing ==
  [][CheckStep =>
       LET call == rlResults'[Len(rlResults')]
       IN countedIn(buckets', call.identifier, call.namespace)
            = countedIn(buckets, call.identifier, call.namespace)]_vars

\* the stored remaining of no key is lower after the step than before it
noCreditLost(ids) ==
  \A id \in ids :
    /\ id \in DOMAIN keys'
    /\ keys'[id].remaining = None <=> keys[id].remaining = None
    /\ keys[id].remaining # None => keys'[id].remaining[1] >= keys[id].remaining[1]

\* the refill of the key is due, as documented
refillDue(k) ==
  /\ k.refill # None
  /\ k.remaining # None
  /\ k.refill[1].interval \in RefillIntervals
  /\ now - k.refill[1].lastRefill >= intervalSpan(k.refill[1].interval)

\* a verify call completes in this step with an outcome other than VALID
RefusedStep == VerifyStep /\ lastCall.ret.code # "VALID"

\* C24: credits are only taken by a successful verification: a verify call
\* whose outcome is not VALID never lowers the stored remaining of a key
C24_CreditsOnlySpentWhenValid == [][RefusedStep => noCreditLost(DOMAIN keys)]_vars

\* C24, amended: such a call leaves the stored remaining of every key as it
\* was, except that the refill step of a call that passes the validity rules
\* sets the remaining of its key to the refill amount when the refill is due
C24_CreditsOnlySpentWhenValidOrRefilled ==
  [][RefusedStep =>
       \A id \in DOMAIN keys :
         /\ id \in DOMAIN keys'
         /\ keys'[id].remaining =
              (IF /\ id = foundKey(lastCall.key)
                  /\ firstMatchingRule(keys[id], now) = "OK"
                  /\ refillDue(keys[id])
               THEN Some(keys[id].refill[1].amount)
               ELSE keys[id].remaining)]_vars

\* a key with 2 credits left is rejected by its rate limit in a call whose
\* refill sets the credits to 1
C24_Witness ==
  /\ Len(results) >= 2
  /\ results[Len(results) - 1].ret.code = "VALID"
  /\ results[Len(results) - 1].ret.remaining = Some(2)
  /\ results[Len(results)].key = results[Len(results) - 1].key
  /\ results[Len(results)].ret.code = "RATE_LIMITED"
  /\ keys[foundKey(results[Len(results)].key)].remaining = Some(1)

\* C25: a key without remaining and without ratelimit that is not revoked,
\* disabled, expired or past the end of a rotation grace is VALID with remaining
\* undefined on every verify, however many preceded it: it is never
\* USAGE_EXCEEDED, and never RATE_LIMITED, also when there is an override for
\* its digest
C25_PlainKeyAlwaysValid ==
  [][VerifyStep /\ foundKey(lastCall.key) # 0
     => LET id == foundKey(lastCall.key)
            k == keys[id]
        IN /\ k.remaining = None
           /\ k.ratelimit = None
           /\ firstMatchingRule(k, now) = "OK"
           => /\ lastCall.ret.valid
              /\ lastCall.ret.code = "VALID"
              /\ lastCall.ret.remaining = None
              /\ keys'[id].remaining = None
              /\ buckets' = buckets]_vars

\* a key without remaining and ratelimit was given an override of limit 1 and
\* then verified three times at one instant: VALID each time
C25_Witness ==
  /\ Len(audit) = 2
  /\ audit[2].action = "ratelimit.override_set"
  /\ overrides # << >>
  /\ 1 \in DOMAIN keys /\ keys[1].remaining = None /\ keys[1].ratelimit = None
  /\ Len(callsOf(1)) = 3
  /\ \A i \in 1..3 : /\ callsOf(1)[i].ret.code = "VALID"
                      /\ callsOf(1)[i].at = now
                      /\ callsOf(1)[i].at > audit[2].timestamp

\* the step appends one entry to the audit log, of the action and the target
audited(action, targetKeyHash) ==
  /\ Len(audit') = Len(audit) + 1
  /\ SubSeq(audit', 1, Len(audit)) = audit
  /\ audit'[Len(audit')].action = action
  /\ audit'[Len(audit')].targetKeyHash = Some(targetKeyHash)

\* C26: every successful create, revoke (soft or hard), update and rotate
\* writes exactly one audit entry, of action key.created, key.revoked,
\* key.updated and key.rotated, that targets the digest of the key it affects
\* (for rotate: the old key)
C26_OneAuditEntryEach ==
  [][/\ \A o \in Owners, a \in AuditArgs :
          Create(o, DefaultNamespace, a.expires, a.remaining, a.refill, a.ratelimit)
            => audited("key.created", hashKey(nextId))
     /\ \A id \in DOMAIN keys :
          /\ \A soft \in {None, Some(TRUE), Some(FALSE)} :
               Revoke(id, soft) => audited("key.revoked", keys[id].hash)
          /\ \A patch \in AuditPatches :
               Update(id, patch) => audited("key.updated", keys[id].hash)
          /\ \A g \in {None, Some(1)} :
               Rotate(id, g) => audited("key.rotated", keys[id].hash)]_vars

\* a key was created, rotated and deleted by a hard revoke: three entries
C26_Witness ==
  /\ Len(audit) = 3
  /\ audit[1].action = "key.created"
  /\ audit[2].action = "key.rotated"
  /\ audit[3].action = "key.revoked"
  /\ audit[3].details.soft = FALSE
  /\ audit[3].targetKeyHash = audit[1].targetKeyHash
  /\ 1 \notin DOMAIN keys

\* the call that a step of checkRateLimit returns from
lastCheck == rlResults'[Len(rlResults')]

\* the bucket of the call before the step (0 when there is none) and after it
bucketBefore == firstByKeyNamespace(buckets, lastCheck.identifier, lastCheck.namespace)

bucketAfter == firstByKeyNamespace(buckets', lastCheck.identifier, lastCheck.namespace)

\* the window of the bucket has fully elapsed at the time of the call
windowElapsed == buckets[bucketBefore].windowStart < lastCheck.at - lastCheck.duration

\* C27: a call at time now on an existing bucket resets the bucket (count 1,
\* windowStart now) and returns allowed with remaining limit - 1 and reset
\* now + duration exactly when windowStart < now - duration; otherwise the
\* window is kept and the reset returned is windowStart + duration
C27_ResetWhenWindowElapsed ==
  [][(CheckStep /\ bucketBefore # 0) =>
       IF windowElapsed
       THEN /\ buckets'[bucketAfter].count = 1
            /\ buckets'[bucketAfter].windowStart = lastCheck.at
            /\ lastCheck.success
            /\ lastCheck.remaining = lastCheck.limit - 1
            /\ lastCheck.reset = lastCheck.at + lastCheck.duration
       ELSE /\ buckets'[bucketAfter].windowStart = buckets[bucketBefore].windowStart
            /\ lastCheck.reset = buckets[bucketBefore].windowStart + lastCheck.duration]_vars

\* a call refused in a full window, then a call allowed by the reset of the
\* bucket, and a call at the very end of a window that is kept
C27_Witness ==
  /\ Len(rlResults) = 3
  /\ \A i \in 1..3 : /\ rlResults[i].identifier = "user-a"
                     /\ rlResults[i].limit = 1
                     /\ rlResults[i].duration = 1
  /\ rlResults[2].at = rlResults[1].at + 1
  /\ ~rlResults[2].success
  /\ rlResults[3].at = rlResults[1].at + 2
  /\ rlResults[3].success
  /\ rlResults[3].reset = rlResults[3].at + 1

\* the calls made at an instant
callsAt(t) == {i \in 1..Len(rlResults) : rlResults[i].at = t}

\* the allowed calls in the span of length duration that starts at t
allowedIn(t, duration) ==
  Cardinality({i \in 1..Len(rlResults) :
                 /\ rlResults[i].success
                 /\ t <= rlResults[i].at
                 /\ rlResults[i].at <= t + duration})

\* the instants at which a span may start
SpanStarts == 0..(MaxTime + 1)

\* a window opened by one call at w, limit calls at its last instant, and
\* limit calls right after the rollover
burstAcrossRollover(w, limit, duration) ==
  /\ Cardinality(callsAt(w)) = 1
  /\ \A t \in (w + 1)..(w + duration - 1) : callsAt(t) = {}
  /\ Cardinality(callsAt(w + duration)) >= limit
  /\ Cardinality(callsAt(w + duration + 1)) >= limit
  /\ \A i \in 1..Len(rlResults) : rlResults[i].at >= w

\* C28 as stated: under a constant limit L and duration D every span of length
\* D holds at most 2 * L allowed calls, and L calls at the end of one window
\* followed by L calls right after the rollover put 2 * L allowed calls in
\* such a span
C28_TwiceLimitInSpan ==
  buckets # << >> =>
    LET L == buckets[1].limit
        D == buckets[1].duration
    IN /\ \A t \in SpanStarts : allowedIn(t, D) <= 2 * L
       /\ \A w \in SpanStarts :
            burstAcrossRollover(w, L, D) => \E t \in SpanStarts : allowedIn(t, D) = 2 * L

\* C28: for one bucket with a constant limit L >= 1 and duration D, over calls
\* at non-decreasing times, every span of length D holds at most 2 * L - 1
\* allowed calls (the call that opens a window is more than D before the
\* rollover)
C28_TwiceLimitLessOneInSpan ==
  buckets # << >> =>
    \A t \in SpanStarts : allowedIn(t, buckets[1].duration) <= 2 * buckets[1].limit - 1

\* limit 2: one more call at the end of the window that the first call
\* opened, two right after the rollover, the three of them in one span
C28_Witness ==
  /\ buckets # << >>
  /\ buckets[1].limit = 2
  /\ \E t \in SpanStarts : allowedIn(t, buckets[1].duration) = 3

\* the credits of a key after the refill step of a verify call at the
\* current time
creditsAfterRefill(k) == IF refillDue(k) THEN Some(k.refill[1].amount) ELSE k.remaining

\* the verify call of this step reaches the credit check with no credit left
ExhaustedStep ==
  /\ VerifyStep
  /\ foundKey(lastCall.key) # 0
  /\ LET k == keys[foundKey(lastCall.key)]
     IN /\ firstMatchingRule(k, now) = "OK"
        /\ creditsAfterRefill(k) # None
        /\ creditsAfterRefill(k)[1] <= 0

\* C29: the credit check comes before the rate-limit check: a key whose
\* remaining is <= 0 after the refill step returns USAGE_EXCEEDED, not
\* RATE_LIMITED, even when its bucket is full, and the call leaves every
\* rate-limit bucket as it was (no slot consumed, no bucket created)
C29_CreditCheckBeforeRateLimit ==
  [][ExhaustedStep => lastCall.ret.code = "USAGE_EXCEEDED" /\ buckets' = buckets]_vars

\* a key with a rate limit of 1 spends its last credit and fills its bucket,
\* and is verified again within the window
C29_Witness ==
  /\ Len(results) >= 2
  /\ results[Len(results) - 1].ret.code = "VALID"
  /\ results[Len(results)].key = results[Len(results) - 1].key
  /\ results[Len(results)].ret.code = "USAGE_EXCEEDED"
  /\ LET k == keys[foundKey(results[Len(results)].key)]
     IN /\ k.ratelimit # None
        /\ countedIn(buckets, k.hash, k.namespace) >= k.ratelimit[1].limit

\* the ids of the roles and of the permissions that were deleted
deletedRoles ==
  {audit[i].details.roleId : i \in {j \in DOMAIN audit : audit[j].action = "role.deleted"}}

deletedPermissions ==
  {audit[i].details.permissionId :
     i \in {j \in DOMAIN audit : audit[j].action = "permission.deleted"}}

\* key document k still holds the id of a deleted role or of a deleted
\* permission, directly or through a role that exists
referencesDeleted(k) ==
  \/ elements(k.roleIds) \cap deletedRoles # {}
  \/ grantedPermissions(k) \cap deletedPermissions # {}

\* the ids and the names of the permissions that exist among those granted to k
existingGrants(k) ==
  LET ids == {id \in grantedPermissions(k) : docById(permissions, id) # 0}
  IN ids \cup {permissions[docById(permissions, id)].name : id \in ids}

\* what the value returned as permissions lists
returnedPermissions(ret) ==
  IF ret.permissions.type = "array" THEN elements(ret.permissions.items)
  ELSE elements(ret.permissions.fields.permissionNames)

\* the names of roles that the value returned as permissions holds
returnedRoleNames(ret) ==
  IF ret.permissions.type = "array" THEN {}
  ELSE elements(ret.permissions.fields.roleNames)

\* a verify call completes in this step on a key that holds the id of a
\* deleted role or permission and that nothing else refuses
DanglingStep ==
  /\ VerifyStep
  /\ foundKey(lastCall.key) # 0
  /\ LET k == keys[foundKey(lastCall.key)]
     IN /\ referencesDeleted(k)
        /\ firstMatchingRule(k, now) = "OK"
        /\ k.remaining = None
        /\ k.ratelimit = None

\* the call is VALID without error, and what it returns as permissions comes
\* from the permissions that exist, granted directly or by roles that exist
toleratedIn(k) ==
  /\ lastCall.ret.code = "VALID"
  /\ thrown' = thrown
  /\ returnedPermissions(lastCall.ret) \subseteq existingGrants(k)
  /\ returnedRoleNames(lastCall.ret) = {roles[docById(roles, r)].name : r \in existingRoles(k)}

outcomeSum(r) ==
  r.valid + r.rateLimited + r.usageExceeded + r.expired + r.revoked + r.disabled + r.notFound

\* C31: in every analytics rollup, hourly or daily, total equals the sum of the
\* per-outcome counters, whatever the outcome codes of the logs rolled up
C31_TotalIsSumOfOutcomes ==
  \A i \in DOMAIN analyticsRollups :
    analyticsRollups[i].total = outcomeSum(analyticsRollups[i])

\* the expires instant of the key has passed and the key is not revoked
expiredUnrevoked(id) ==
  /\ keys[id].expires # None
  /\ keys[id].expires[1] < now
  /\ keys[id].revokedAt = None

\* a caller has disabled the key: an update of it with enabled = false
callerDisabled(id) ==
  \E i \in DOMAIN audit : /\ audit[i].action = "key.updated"
                          /\ audit[i].targetKeyHash = Some(keys[id].hash)
                          /\ audit[i].details.enabled = Some(FALSE)

\* the audit entry i is an update that enables the key
enabledAt(i, id) ==
  /\ audit[i].action = "key.updated"
  /\ audit[i].targetKeyHash = Some(keys[id].hash)
  /\ audit[i].details.enabled = Some(TRUE)

\* a run of expireKeys after the expires instant of the key has disabled keys,
\* and no caller has enabled the key since
swept(id) ==
  \E i \in DOMAIN audit :
    /\ audit[i].action = "cron.expire_keys"
    /\ audit[i].timestamp > keys[id].expires[1]
    /\ \A j \in DOMAIN audit : j > i => ~enabledAt(j, id)

\* a verify call that finds a key whose expires has passed and that no caller
\* has revoked or disabled
ExpiredVerifyStep ==
  /\ VerifyStep
  /\ foundKey(lastCall.key) # 0
  /\ expiredUnrevoked(foundKey(lastCall.key))
  /\ ~callerDisabled(foundKey(lastCall.key))

SweepStep ==
  /\ results' = results /\ thrown' = thrown /\ now' = now /\ nextId' = nextId
  /\ \/ audit' = audit
     \/ /\ Len(audit') = Len(audit) + 1
        /\ audit'[Len(audit')].action = "cron.expire_keys"

\* C36: under repeated runs of expireKeys every enabled key whose expires is
\* below now is eventually disabled; a run leaves every key whose expires is
\* unset or has not passed as it is, and a run that finds no key to disable
\* changes nothing and writes no audit entry
C36_ExpireKeysDisablesExpiredOnly ==
  /\ (expiredEnabled(now) # {}) ~> (expiredEnabled(now) = {})
  /\ [][SweepStep =>
          /\ \A id \in DOMAIN keys :
                id \notin expiredEnabled(now) => keys'[id] = keys[id]
          /\ \A id \in expiredEnabled(now) :
                keys'[id] = [keys[id] EXCEPT !.enabled = FALSE, !.updatedAt = now]
          /\ expiredEnabled(now) = {} => audit' = audit]_vars

\* a run of expireKeys has disabled a key whose expires had passed, and left a
\* key without expires and a key whose expires has not passed enabled
C36_Witness ==
  /\ \E i \in DOMAIN audit : audit[i].action = "cron.expire_keys"
  /\ \E id1, id2 \in DOMAIN keys :
       /\ ~keys[id1].enabled /\ ~callerDisabled(id1)
       /\ keys[id1].expires # None /\ keys[id1].expires[1] < now
       /\ keys[id2].enabled
       /\ keys[id2].expires = None \/ keys[id2].expires[1] >= now

\* the documents of a table
documents(table) == {table[i] : i \in DOMAIN table}

\* verify of the plaintext p at time t on the database db: the result and the
\* database that the call leaves
verifyOn(db, p, t) ==
  LET out == verifyHandler(db, p, t)
  IN [db |-> [db EXCEPT !.keys = out.keys, !.buckets = out.buckets],
      result |-> out.result]

\* verify of a and then of b, from the current state at the current time
verifyBoth(a, b) ==
  LET first == verifyOn(database, a, now)
      second == verifyOn(first.db, b, now)
  IN [of |-> (a :> first.result) @@ (b :> second.result), db |-> second.db]

\* C37: verify of two different keys commutes: either order gives each call the
\* same result and leaves the same key records and rate-limit buckets
C37_VerifyCommutes ==
  \A a, b \in Presentable :
    a < b =>
      LET ab == verifyBoth(a, b)
          ba == verifyBoth(b, a)
      IN /\ ab.of = ba.of
         /\ ab.db.keys = ba.db.keys
         /\ documents(ab.db.buckets) = documents(ba.db.buckets)

\* two keys with credits and a rate limit were verified one after the other at
\* the same time, the second key first: both calls spent a credit and inserted
\* a bucket, the bucket of the second key before that of the first
C37_Witness ==
  \E k \in DOMAIN results :
    /\ k + 1 \in DOMAIN results
    /\ results[k].key > results[k + 1].key
    /\ results[k].at = now /\ results[k + 1].at = now
    /\ results[k].ret.code = "VALID" /\ results[k + 1].ret.code = "VALID"
    /\ Len(buckets) = 2
    /\ \A id \in DOMAIN keys : keys[id].remaining = Some(0)
    /\ buckets[1].keyOrOwnerId = hashKey(results[k].key)

\* C38: revocation is irreversible: a step that keeps the record of a key whose
\* revokedAt is set keeps revokedAt set, and verify of such a key returns
\* REVOKED
C38_RevocationIrreversible ==
  [][\A id \in DOMAIN keys :
       keys[id].revokedAt # None =>
         /\ id \in DOMAIN keys' => keys'[id].revokedAt # None
         /\ VerifyStep /\ foundKey(lastCall.key) = id =>
              lastCall.ret.code = "REVOKED"]_vars

\* a revoked key was enabled again by update and verified after that: the
\* call returned REVOKED
C38_Witness ==
  \E id \in DOMAIN keys, k \in DOMAIN results, i \in DOMAIN audit :
    /\ keys[id].revokedAt # None
    /\ keys[id].enabled
    /\ enabledAt(i, id)
    /\ audit[i].timestamp > keys[id].revokedAt[1]
    /\ results[k].key = id
    /\ results[k].at > audit[i].timestamp
    /\ results[k].ret.code = "REVOKED"

\* C39: in every reachable state the table rateLimitBuckets holds at most one
\* bucket of each pair (identifier, namespace), also when transactions that
\* found no bucket of the pair run concurrently
C39_OneBucketPerPair ==
  \A i, j \in DOMAIN buckets :
    buckets[i].keyOrOwnerId = buckets[j].keyOrOwnerId
      /\ buckets[i].namespace = buckets[j].namespace
    => i = j

\* the first two transactions ran concurrently on a pair without bucket: one
\* of them inserted the bucket, the other conflicted and ran again on it
C39_Witness ==
  /\ Len(txns) = 2
  /\ quiescent
  /\ \E i \in 1..2 : txns[i].runs = 2 /\ txns[3 - i].runs = 1
  /\ Len(buckets) = 1
  /\ \E k \in DOMAIN rlResults : rlResults[k].success
  /\ Len(results) + Len(rlResults) = 2

\* the calls of checkRateLimit on the bucket of call k that came after it
laterCalls(k) ==
  {i \in DOMAIN rlResults : /\ i > k
                            /\ rlResults[i].identifier = rlResults[k].identifier
                            /\ rlResults[i].namespace = rlResults[k].namespace}

\* call i has the limit and the duration of call k
samePolicy(i, k) ==
  /\ rlResults[i].limit = rlResults[k].limit
  /\ rlResults[i].duration = rlResults[k].duration

\* call i is the first call on the bucket of call k after it
nextCall(i, k) == i \in laterCalls(k) /\ \A j \in laterCalls(k) : i <= j

\* C40: after a call on a bucket is rejected with reset instant R, every call on
\* that bucket with the same limit and duration at a time t >= R is allowed
C40_AllowedFromReset ==
  \A k \in DOMAIN rlResults : \A i \in laterCalls(k) :
    ~rlResults[k].success /\ samePolicy(i, k) /\ rlResults[i].at >= rlResults[k].reset
    => rlResults[i].success

\* C40, amended: the next call on that bucket with the same limit and duration
\* is allowed when its time is after R, and rejected when its time is R or
\* earlier
C40_NextAllowedAfterReset ==
  \A k, i \in DOMAIN rlResults :
    ~rlResults[k].success /\ nextCall(i, k) /\ samePolicy(i, k)
    => (rlResults[i].success <=> rlResults[i].at > rlResults[k].reset)

\* a call was rejected with reset R, the next call came at R and was rejected
\* with the same R, and the call after that came later and was allowed
C40_Witness ==
  \E k, i, j \in DOMAIN rlResults :
    /\ ~rlResults[k].success
    /\ nextCall(i, k) /\ samePolicy(i, k)
    /\ rlResults[i].at = rlResults[k].reset
    /\ ~rlResults[i].success /\ rlResults[i].reset = rlResults[k].reset
    /\ nextCall(j, i) /\ samePolicy(j, i)
    /\ rlResults[j].at > rlResults[i].reset
    /\ rlResults[j].success

\* the buckets that a step inserts or patches
touchedBuckets ==
  {i \in DOMAIN buckets' : i \notin DOMAIN buckets \/ buckets'[i] # buckets[i]}

\* bucket i is the bucket of the key id under the namespace of its record, and
\* a bucket inserted has the limit of the override of that pair where one
\* exists
ofKeyNamespace(i, id) ==
  LET o == firstByKeyNamespace(overrides, keys[id].hash, keys[id].namespace)
  IN /\ buckets'[i].keyOrOwnerId = keys[id].hash
     /\ buckets'[i].namespace = keys[id].namespace
     /\ i \notin DOMAIN buckets =>
          buckets'[i].limit = (IF o # 0 THEN overrides[o].limit
                               ELSE keys[id].ratelimit[1].limit)

\* C34: two verify calls that differ in the namespace argument only return the
\* same result and make the same state change, and a verify call reads and
\* writes the bucket and the override of the namespace of the key record
C34_NamespaceArgumentIgnored ==
  [][\A p \in Plaintexts, n1 \in NamespaceArgs :
        VerifyArgs([key |-> p, namespace |-> n1]) =>
          /\ \A n2 \in NamespaceArgs : VerifyArgs([key |-> p, namespace |-> n2])
          /\ \A i \in touchedBuckets : \E id \in DOMAIN keys :
                hashKey(p) = keys[id].hash /\ ofKeyNamespace(i, id)]_vars

\* a key of the namespace tenant with an override was verified and refused by the
\* limit of its namespace, while the other namespace has no bucket of it
C34_Witness ==
  \E k \in DOMAIN results, id \in DOMAIN keys :
    /\ results[k].key = id
    /\ keys[id].namespace = "tenant"
    /\ results[k].ret.code = "RATE_LIMITED"
    /\ firstByKeyNamespace(overrides, keys[id].hash, "tenant") # 0
    /\ firstByKeyNamespace(buckets, keys[id].hash, "tenant") # 0
    /\ firstByKeyNamespace(buckets, keys[id].hash, DefaultNamespace) = 0

\* every outcome code is returned by some verify call
CodeReached(code) == \E i \in 1..Len(results) : results[i].ret.code = code

====
